---- MODULE Spec2Model ----
(***************************************************************************)
(* Model of the asset-control back end: the relational store (ativos,      *)
(* cotacoes, carteiras, carteira_ativos), the analytics service            *)
(* (analisar_ativo, comparar_ativos, analisar_carteira) and the portfolio  *)
(* recomputation of crud.py (atualizar_valor_carteira,                     *)
(* calcular_percentual_carteira).                                          *)
(*                                                                         *)
(* Numbers: prices and quantities are small naturals.  Float results are   *)
(* fixed point: returns, volatility and Sharpe ratio in 1/Escala,          *)
(* portfolio weights in 1/PctEscala of a percent.                          *)
(***************************************************************************)
EXTENDS Integers, Sequences, FiniteSets, TLC

\* ---------------------------------------------------------------- bounds
MaxAtivos == 2
MaxTime == 3
MaxPreco == 1
MaxCotacoes == 5
MaxQtd == 2
MaxCarteiras == 2
MaxHoldings == 2
MaxTickers == 2
MaxPeriodo == 2
MaxTimeCarteira == 2
MaxPrecoConc == 2
MaxLeituras == 2
MaxTimeDividendo == 1
MaxDividendos == 1
MaxQtdRelatorio == 1
MaxPrecoRelatorio == 1
MaxInvestido == 1
MaxTentativas == 2
MaxItens == 1
MaxTimeSync == 2
MaxLenFormula == 4
MaxVariacao == 1
MaxRetorno == 2
MaxLenRetornos == 3
MantissaBits == 4
MaxTransacoes == 2

\* ------------------------------------------------------------- constants
Escala == 1000
PctEscala == 100
DiasUteis == 252
Raiz252 == 15875
TaxaLivreRisco == 100

Tickers == {"A", "B"}
Times == 1..MaxTime
TimesCarteira == 1..MaxTimeCarteira
TimesDividendo == 1..MaxTimeDividendo
Precos == 0..MaxPreco
PrecosConc == 1..MaxPrecoConc
Quantidades == 1..MaxQtd
Periodos == 0..MaxPeriodo
AtivoIds == 1..MaxAtivos
CarteiraIds == 1..MaxCarteiras
HoldingIds == 1..MaxHoldings
Reqs == {"r1", "r2"}

ErroNaoEncontrado == "Ativo nao encontrado"
ErroInsuficiente == "Dados insuficientes para analise"
ErroComparacao == "Nenhum ativo valido para comparacao"
ErroCarteiraVazia == "Carteira vazia ou nao encontrada"

\* Ativo.setor is nullable
SetorNulo == ""
NaoClassificado == "Nao classificado"
Setores == {SetorNulo, "Financeiro", "Energia"}

\* str.upper()
Upper(tk) == IF tk = "a" THEN "A" ELSE IF tk = "b" THEN "B" ELSE tk

VARIABLES
  ativos,           \* table ativos: set of [id, ticker]
  cotacoes,         \* table cotacoes: set of [ativo_id, data_hora, preco_fechamento]
  carteiras,        \* table carteiras: set of [id, valor_total, ativa]
  carteira_ativos,  \* table carteira_ativos: set of holdings
  dividendos,       \* table dividendos: set of [ativo_id, data_ex, valor]
  transacoes,       \* table transacoes: set of [id, carteira_id, ativo_id, quantidade]
  resultado,        \* last answer of the asset analytics (analisar / comparar)
  pc,               \* position of each portfolio-read request
  loc,              \* request-local data (the ORM session of the request)
  resp,             \* answer of each portfolio-read request
  pre,              \* store at the moment the running reads started
  interf,           \* a quote was inserted while a read was running
  ultimo,           \* the request whose commit was the last one
  lidas             \* number of interleaved portfolio reads started so far

db == <<ativos, cotacoes, carteiras, carteira_ativos, dividendos, transacoes>>
vars == <<ativos, cotacoes, carteiras, carteira_ativos, dividendos, transacoes, resultado, pc, loc, resp, pre, interf, ultimo, lidas>>

\* ------------------------------------------------------------- helpers
Max(S) == CHOOSE x \in S : \A y \in S : y <= x

RECURSIVE SumSeq(_)
SumSeq(s) == IF s = <<>> THEN 0 ELSE Head(s) + SumSeq(Tail(s))

RECURSIVE SumFn(_, _)
SumFn(f, S) == IF S = {} THEN 0
               ELSE LET x == CHOOSE y \in S : TRUE IN f[x] + SumFn(f, S \ {x})

RECURSIVE IsqrtIter(_, _, _)
IsqrtIter(v, lo, hi) ==
  IF lo >= hi THEN lo
  ELSE LET mid == (lo + hi + 1) \div 2
       IN IF mid * mid <= v THEN IsqrtIter(v, mid, hi) ELSE IsqrtIter(v, lo, mid - 1)

\* integer square root: the fixed-point image of np.sqrt / np.std
Isqrt(v) == IsqrtIter(v, 0, 4000)

\* ---------------------------------------------------------------- crud
get_ativo_by_ticker(tk) == {a \in ativos : a.ticker = tk}

get_ativo(aid) == {a \in ativos : a.id = aid}

CotacoesDe(cots, aid) == {c \in cots : c.ativo_id = aid}

\* closing prices of the quotes of aid with lo <= data_hora <= hi, ascending
RECURSIVE get_cotacoes_periodo(_, _, _)
get_cotacoes_periodo(aid, lo, hi) ==
  IF lo > hi THEN <<>>
  ELSE LET here == {c \in CotacoesDe(cotacoes, aid) : c.data_hora = lo}
       IN (IF here = {} THEN <<>> ELSE <<(CHOOSE c \in here : TRUE).preco_fechamento>>)
          \o get_cotacoes_periodo(aid, lo + 1, hi)

\* dividends of aid with lo <= data_ex <= hi
get_dividendos_periodo(aid, lo, hi) ==
  {d \in dividendos : d.ativo_id = aid /\ d.data_ex >= lo /\ d.data_ex <= hi}

\* ------------------------------------------------- analytics: formulas
\* variant: the price ratio, without taking the initial price away
calcular_retorno_simples_razao(preco_inicial, preco_final) ==
  IF preco_inicial = 0 THEN 0
  ELSE (preco_final * Escala) \div preco_inicial

calcular_retorno_simples(preco_inicial, preco_final) ==
  IF preco_inicial = 0 THEN 0
  ELSE ((preco_final - preco_inicial) * Escala) \div preco_inicial

\* variant: every return is taken against the first price
calcular_retorno_composto_base(precos) ==
  IF Len(precos) < 2 THEN <<>>
  ELSE [i \in 1..(Len(precos) - 1) |->
          IF precos[1] # 0 THEN ((precos[i + 1] * Escala) \div precos[1]) - Escala
          ELSE 0]

calcular_retorno_composto(precos) ==
  IF Len(precos) < 2 THEN <<>>
  ELSE [i \in 1..(Len(precos) - 1) |->
          IF precos[i] # 0 THEN ((precos[i + 1] * Escala) \div precos[i]) - Escala
          ELSE 0]

Media(retornos) == SumSeq(retornos) \div Len(retornos)

calcular_volatilidade(retornos) ==
  IF Len(retornos) < 2 THEN 0
  ELSE LET m == Media(retornos)
           sq == [i \in 1..Len(retornos) |-> (retornos[i] - m) * (retornos[i] - m)]
           desvio == Isqrt(SumSeq(sq) \div (Len(retornos) - 1))
       IN (desvio * Raiz252) \div Escala

calcular_sharpe_ratio(retornos) ==
  IF Len(retornos) < 2 THEN 0
  ELSE LET retorno_medio == Media(retornos) * DiasUteis
           volatilidade == calcular_volatilidade(retornos)
       IN IF volatilidade = 0 THEN 0
          ELSE ((retorno_medio - TaxaLivreRisco) * Escala) \div volatilidade

\* ------------------------------------------------ analytics: drawdown
NaN == [nan |-> TRUE, valor |-> 0]

Num(v) == [nan |-> FALSE, valor |-> v]

\* np.maximum.accumulate
Picos(precos) == [i \in 1..Len(precos) |-> Max({precos[j] : j \in 1..i})]

\* (valores_acumulados - picos) / picos, element by element: 0.0 / 0.0 is nan
Drawdowns(precos) ==
  [i \in 1..Len(precos) |->
     IF Picos(precos)[i] = 0 THEN NaN
     ELSE Num(((precos[i] - Picos(precos)[i]) * Escala) \div Picos(precos)[i])]

\* np.min: nan as soon as one element is nan
MinNan(ds) ==
  IF \E i \in 1..Len(ds) : ds[i].nan THEN NaN
  ELSE Num(CHOOSE v \in {ds[i].valor : i \in 1..Len(ds)} :
             \A i \in 1..Len(ds) : v <= ds[i].valor)

calcular_drawdown(precos) ==
  IF Len(precos) < 2 THEN [drawdowns |-> <<>>, max_drawdown |-> Num(0)]
  ELSE [drawdowns |-> Drawdowns(precos), max_drawdown |-> MinNan(Drawdowns(precos))]

\* ------------------------------------------------ analytics: one asset
MinObservacoesFraco == 2 - 1

MinObservacoes == 2

Min(S) == CHOOSE x \in S : \A y \in S : x <= y

\* analisar_ativo, from "Calculos de performance" to the returned dict
Desempenho(tk, precos, divs) ==
  LET retornos == calcular_retorno_composto(precos)
  IN [ticker |-> tk,
      preco_atual |-> precos[Len(precos)],
      preco_minimo |-> Min({precos[i] : i \in 1..Len(precos)}),
      preco_maximo |-> Max({precos[i] : i \in 1..Len(precos)}),
      retorno_total |-> calcular_retorno_simples(precos[1], precos[Len(precos)]),
      volatilidade |-> calcular_volatilidade(retornos),
      sharpe_ratio |-> calcular_sharpe_ratio(retornos),
      max_drawdown |-> calcular_drawdown(precos).max_drawdown,
      dividend_yield |-> IF precos[Len(precos)] > 0
                         THEN (SumFn([d \in divs |-> d.valor], divs) * Escala)
                                \div precos[Len(precos)]
                         ELSE 0,
      numero_observacoes |-> Len(precos),
      numero_dividendos |-> Cardinality(divs)]

\* variant: the data-sufficiency check comes first
analisar_ativo_sem_busca(tk, periodo_dias, now) ==
  LET achados == get_ativo_by_ticker(tk)
      precos == IF achados = {} THEN <<>>
                ELSE get_cotacoes_periodo((CHOOSE a \in achados : TRUE).id,
                                          now - periodo_dias, now)
  IN IF Len(precos) < MinObservacoes THEN [error |-> ErroInsuficiente]
     ELSE IF achados = {} THEN [error |-> ErroNaoEncontrado]
     ELSE Desempenho(tk, precos,
                     get_dividendos_periodo((CHOOSE a \in achados : TRUE).id,
                                            now - periodo_dias, now))

analisar_ativo(tk, periodo_dias, now) ==
  IF get_ativo_by_ticker(tk) = {} THEN [error |-> ErroNaoEncontrado]
  ELSE LET ativo == CHOOSE a \in get_ativo_by_ticker(tk) : TRUE
           precos == get_cotacoes_periodo(ativo.id, now - periodo_dias, now)
       IN IF Len(precos) < MinObservacoes THEN [error |-> ErroInsuficiente]
          ELSE Desempenho(tk, precos,
                          get_dividendos_periodo(ativo.id, now - periodo_dias, now))

TemErro(r) == "error" \in DOMAIN r

\* ------------------------------------------- analytics: several assets
\* variant: a failing ticker empties the results collected so far
RECURSIVE ResultadosReinicia(_, _, _)
ResultadosReinicia(tickers, periodo_dias, now) ==
  IF tickers = <<>> THEN <<>>
  ELSE LET n == Len(tickers)
           antes == ResultadosReinicia(SubSeq(tickers, 1, n - 1), periodo_dias, now)
           tk == tickers[n]
       IN IF TemErro(analisar_ativo(tk, periodo_dias, now)) THEN <<>>
          ELSE IF \A i \in 1..Len(antes) : antes[i] # tk THEN Append(antes, tk)
          ELSE antes

\* keys of the dict resultados in insertion order: a ticker keeps the place
\* of its first successful analysis
RECURSIVE Resultados(_, _, _)
Resultados(tickers, periodo_dias, now) ==
  IF tickers = <<>> THEN <<>>
  ELSE LET n == Len(tickers)
           antes == Resultados(SubSeq(tickers, 1, n - 1), periodo_dias, now)
           tk == tickers[n]
       IN IF /\ ~TemErro(analisar_ativo(tk, periodo_dias, now))
             /\ \A i \in 1..Len(antes) : antes[i] # tk
          THEN Append(antes, tk)
          ELSE antes

\* variant: an equal key is inserted before its equals (unstable)
RECURSIVE InsereDescInstavel(_, _, _)
InsereDescInstavel(linhas, x, i) ==
  IF i > Len(linhas) THEN Append(linhas, x)
  ELSE IF linhas[i].sharpe_ratio <= x.sharpe_ratio
       THEN SubSeq(linhas, 1, i - 1) \o <<x>> \o SubSeq(linhas, i, Len(linhas))
       ELSE InsereDescInstavel(linhas, x, i + 1)

\* list.sort(key, reverse=True): stable, descending
RECURSIVE InsereDesc(_, _, _)
InsereDesc(linhas, x, i) ==
  IF i > Len(linhas) THEN Append(linhas, x)
  ELSE IF linhas[i].sharpe_ratio < x.sharpe_ratio
       THEN SubSeq(linhas, 1, i - 1) \o <<x>> \o SubSeq(linhas, i, Len(linhas))
       ELSE InsereDesc(linhas, x, i + 1)

RECURSIVE OrdenaPorSharpe(_)
OrdenaPorSharpe(linhas) ==
  IF linhas = <<>> THEN <<>>
  ELSE LET n == Len(linhas)
       IN InsereDesc(OrdenaPorSharpe(SubSeq(linhas, 1, n - 1)), linhas[n], 1)

comparar_ativos(tickers, periodo_dias, now) ==
  LET chaves == Resultados(tickers, periodo_dias, now)
  IN IF chaves = <<>> THEN [error |-> ErroComparacao]
     ELSE LET linhas == [i \in 1..Len(chaves) |->
                           LET dados == analisar_ativo(chaves[i], periodo_dias, now)
                           IN [ticker |-> chaves[i], sharpe_ratio |-> dados.sharpe_ratio,
                               retorno_total |-> dados.retorno_total]]
          IN [comparacao |-> OrdenaPorSharpe(linhas),
              detalhes |-> {chaves[i] : i \in 1..Len(chaves)}]

\* ------------------------------------------------------ store: set-up
\* no request is being served: no portfolio read is running and the last
\* analytics answer has been delivered
AllIdle == /\ \A r \in Reqs : pc[r] = "idle"
           /\ resultado.op = "none"

UNCH_req == UNCHANGED <<pc, loc, resp, pre, interf, ultimo, lidas>>

\* routers/ativos.py create_ativo: a registered ticker is refused
CreateAtivo(tk) ==
  /\ AllIdle
  /\ Cardinality(ativos) < MaxAtivos
  /\ get_ativo_by_ticker(tk) = {}
  /\ ativos' = ativos \cup {[id |-> Cardinality(ativos) + 1, ticker |-> tk, setor |-> SetorNulo]}
  /\ UNCHANGED <<cotacoes, carteiras, carteira_ativos, dividendos, transacoes, resultado>>
  /\ UNCH_req

\* crud.create_cotacao for a stored asset; (ativo_id, data_hora) is unique
InsertCotacao(aid, t, p) ==
  /\ get_ativo(aid) # {}
  /\ Cardinality(cotacoes) < MaxCotacoes
  /\ \A c \in cotacoes : ~(c.ativo_id = aid /\ c.data_hora = t)
  /\ cotacoes' = cotacoes \cup {[ativo_id |-> aid, data_hora |-> t, preco_fechamento |-> p]}

CreateCotacao(aid, t, p) ==
  /\ AllIdle
  /\ InsertCotacao(aid, t, p)
  /\ UNCHANGED <<ativos, carteiras, carteira_ativos, dividendos, transacoes, resultado>>
  /\ UNCH_req


\* =================================================== portfolio recompute
get_carteira(cid) == {c \in carteiras : c.id = cid}

get_carteira_ativos(cid) == {h \in carteira_ativos : h.carteira_id = cid}

get_carteira_ativo(cid, aid) ==
  {h \in carteira_ativos : h.carteira_id = cid /\ h.ativo_id = aid}

\* variant: the oldest quote is taken
PrimeiraCotacao(cots, aid) ==
  CHOOSE c \in CotacoesDe(cots, aid) : \A d \in CotacoesDe(cots, aid) : d.data_hora >= c.data_hora

\* the quote of the asset with the greatest data_hora
UltimaCotacao(cots, aid) ==
  CHOOSE c \in CotacoesDe(cots, aid) : \A d \in CotacoesDe(cots, aid) : d.data_hora <= c.data_hora

\* atualizar_valor_carteira, loop body: quantidade * latest closing price,
\* 0.0 when the asset has no quote
ValorAtual(cots, quantidade, aid) ==
  IF CotacoesDe(cots, aid) # {}
  THEN quantidade * UltimaCotacao(cots, aid).preco_fechamento
  ELSE 0

\* calcular_percentual_carteira, loop body
Percentual(valor_atual, valor_total) == (valor_atual * 100 * PctEscala) \div valor_total

PorId(rows) == [i \in {h.id : h \in rows} |-> CHOOSE h \in rows : h.id = i]

LocVazio == [kind |-> "none", cid |-> 0, ident |-> <<>>, novo |-> <<>>,
             carteira_carregada |-> FALSE, total_carregado |-> 0, total_novo |-> 0,
             total |-> 0, pct |-> <<>>]

RespVazia == [kind |-> "none"]

Kinds == {"analisar_carteira", "get_wallet"}

\* variant: the empty check is missing
CarteiraVaziaNunca(kind, rows) == kind = "analisar_carteira" /\ rows = {} /\ FALSE

\* analisar_carteira: if not carteira_ativos
CarteiraVazia(kind, rows) == kind = "analisar_carteira" /\ rows = {}

\* ------------------------------------------------ wallet set-up routes
\* routers/wallet.py create_wallet
CreateCarteira ==
  /\ AllIdle
  /\ Cardinality(carteiras) < MaxCarteiras
  /\ carteiras' = carteiras \cup {[id |-> Cardinality(carteiras) + 1, valor_total |-> 0, ativa |-> TRUE]}
  /\ UNCHANGED <<ativos, cotacoes, carteira_ativos, dividendos, transacoes, resultado>>
  /\ UNCH_req

ProximoId(rows) == IF rows = {} THEN 1 ELSE Max({h.id : h \in rows}) + 1

\* routers/wallet.py add_asset_to_wallet: 404 without the wallet, 409 when
\* the pair exists; the asset id itself is not looked up.  The request
\* carries preco_medio 1, so that valor_investido = quantidade
AddAsset(cid, aid, q) ==
  /\ AllIdle
  /\ get_carteira(cid) # {}
  /\ get_carteira_ativo(cid, aid) = {}
  /\ ProximoId(carteira_ativos) <= MaxHoldings
  /\ carteira_ativos' = carteira_ativos \cup
       {[id |-> ProximoId(carteira_ativos), carteira_id |-> cid, ativo_id |-> aid,
         quantidade |-> q, valor_investido |-> q, valor_atual |-> 0,
         percentual_carteira |-> 0]}
  /\ UNCHANGED <<ativos, cotacoes, carteiras, dividendos, transacoes, resultado>>
  /\ UNCH_req

\* routers/wallet.py remove_asset_from_wallet
RemoveAsset(hid) ==
  /\ AllIdle
  /\ \E h \in carteira_ativos : h.id = hid
  /\ carteira_ativos' = {h \in carteira_ativos : h.id # hid}
  /\ UNCHANGED <<ativos, cotacoes, carteiras, dividendos, transacoes, resultado>>
  /\ UNCH_req

\* a quote arrives while portfolio reads may be running
CreateCotacaoConc(aid, t, p) ==
  /\ resultado.op = "none"
  /\ InsertCotacao(aid, t, p)
  /\ interf' = (interf \/ \E r \in Reqs : pc[r] # "idle")
  /\ UNCHANGED <<ativos, carteiras, carteira_ativos, dividendos, transacoes, resultado, pc, loc, resp, pre, ultimo, lidas>>

\* ------------------------------------------------- a portfolio read
Start(r, kind, cid) ==
  /\ resultado.op = "none"
  /\ pc[r] = "idle"
  /\ lidas < MaxLeituras
  /\ lidas' = lidas + 1
  /\ pc' = [pc EXCEPT ![r] = "s1"]
  /\ loc' = [loc EXCEPT ![r] = [LocVazio EXCEPT !.kind = kind, !.cid = cid]]
  /\ IF \A o \in Reqs : pc[o] = "idle"
     THEN /\ pre' = [on |-> TRUE, n |-> 1, conc |-> FALSE, carteiras |-> carteiras,
                     carteira_ativos |-> carteira_ativos]
          /\ interf' = FALSE
     ELSE /\ pre' = [pre EXCEPT !.n = IF @ < 3 THEN @ + 1 ELSE @,
                                !.conc = @ \/ \E o \in Reqs : pc[o] \notin {"idle", "done"}]
          /\ UNCHANGED interf
  /\ UNCHANGED <<db, resultado, resp, ultimo>>

\* analisar_carteira: first get_carteira_ativos and the empty check;
\* get_wallet: get_carteira and the 404
S1(r) ==
  /\ pc[r] = "s1"
  /\ LET l == loc[r] IN
     IF l.kind = "analisar_carteira"
     THEN LET rows == get_carteira_ativos(l.cid) IN
          IF CarteiraVazia(l.kind, rows)
          THEN /\ resp' = [resp EXCEPT ![r] = [kind |-> l.kind, cid |-> l.cid,
                                               out |-> [error |-> ErroCarteiraVazia]]]
               /\ pc' = [pc EXCEPT ![r] = "done"]
               /\ UNCHANGED loc
          ELSE /\ loc' = [loc EXCEPT ![r].ident = PorId(rows)]
               /\ pc' = [pc EXCEPT ![r] = "s2"]
               /\ UNCHANGED resp
     ELSE IF get_carteira(l.cid) = {}
          THEN /\ resp' = [resp EXCEPT ![r] = [kind |-> l.kind, cid |-> l.cid,
                                               out |-> [status |-> 404]]]
               /\ pc' = [pc EXCEPT ![r] = "done"]
               /\ UNCHANGED loc
          ELSE /\ loc' = [loc EXCEPT ![r].carteira_carregada = TRUE,
                                     ![r].total_carregado =
                                        (CHOOSE c \in get_carteira(l.cid) : TRUE).valor_total]
               /\ pc' = [pc EXCEPT ![r] = "s2"]
               /\ UNCHANGED resp
  /\ UNCHANGED <<db, resultado, pre, interf, ultimo, lidas>>

\* atualizar_valor_carteira: the query of the holdings with their assets and
\* quotes, and the loop.  Rows already in the session keep the attribute
\* values they were loaded with.
S2(r) ==
  /\ pc[r] = "s2"
  /\ LET l == loc[r]
         rows == get_carteira_ativos(l.cid)
         ident2 == [i \in {h.id : h \in rows} |->
                      IF i \in DOMAIN l.ident THEN l.ident[i] ELSE PorId(rows)[i]]
     IN IF \E h \in rows : get_ativo(h.ativo_id) = {}
        THEN \* carteira_ativo.ativo is None: AttributeError, nothing committed
             /\ resp' = [resp EXCEPT ![r] = [kind |-> l.kind, cid |-> l.cid,
                                             out |-> [status |-> 500]]]
             /\ pc' = [pc EXCEPT ![r] = "done"]
             /\ UNCHANGED loc
        ELSE /\ loc' = [loc EXCEPT
                          ![r].ident = ident2,
                          ![r].novo = [i \in DOMAIN ident2 |->
                                         ValorAtual(cotacoes, ident2[i].quantidade, ident2[i].ativo_id)],
                          ![r].total_novo =
                             SumFn([i \in DOMAIN ident2 |->
                                      ValorAtual(cotacoes, ident2[i].quantidade, ident2[i].ativo_id)],
                                   DOMAIN ident2)]
             /\ pc' = [pc EXCEPT ![r] = "s3"]
             /\ UNCHANGED resp
  /\ UNCHANGED <<db, resultado, pre, interf, ultimo, lidas>>

\* atualizar_valor_carteira: get_carteira (a wallet already in the session
\* is not reloaded)
S3(r) ==
  /\ pc[r] = "s3"
  /\ LET l == loc[r] IN
     IF get_carteira(l.cid) # {} /\ ~l.carteira_carregada
     THEN loc' = [loc EXCEPT ![r].carteira_carregada = TRUE,
                             ![r].total_carregado =
                                (CHOOSE c \in get_carteira(l.cid) : TRUE).valor_total]
     ELSE UNCHANGED loc
  /\ pc' = [pc EXCEPT ![r] = "s4"]
  /\ UNCHANGED <<db, resultado, resp, pre, interf, ultimo, lidas>>

\* the unit of work flushes an UPDATE of a column only when its value
\* differs from the value loaded into the session
FlushValores(rows, l) ==
  {IF h.id \in DOMAIN l.novo /\ l.novo[h.id] # l.ident[h.id].valor_atual
   THEN [h EXCEPT !.valor_atual = l.novo[h.id]]
   ELSE h : h \in rows}

\* variant: the total is written to every wallet
FlushTotalTodas(cs, l) ==
  {IF l.carteira_carregada /\ l.total_novo # l.total_carregado
   THEN [c EXCEPT !.valor_total = l.total_novo]
   ELSE c : c \in cs}

FlushTotal(cs, l) ==
  {IF c.id = l.cid /\ l.carteira_carregada /\ l.total_novo # l.total_carregado
   THEN [c EXCEPT !.valor_total = l.total_novo]
   ELSE c : c \in cs}

\* atualizar_valor_carteira: db.commit()
S4(r) ==
  /\ pc[r] = "s4"
  /\ carteira_ativos' = FlushValores(carteira_ativos, loc[r])
  /\ carteiras' = FlushTotal(carteiras, loc[r])
  /\ pc' = [pc EXCEPT ![r] = "s5"]
  /\ ultimo' = r
  /\ UNCHANGED <<ativos, cotacoes, dividendos, transacoes, resultado, loc, resp, pre, interf, lidas>>

\* calcular_percentual_carteira: get_carteira and the early return
S5(r) ==
  /\ pc[r] = "s5"
  /\ LET l == loc[r]
         c == get_carteira(l.cid)
     IN IF c = {} \/ (\E x \in c : x.valor_total = 0)
        THEN /\ pc' = [pc EXCEPT ![r] = "s8"]
             /\ UNCHANGED loc
        ELSE /\ loc' = [loc EXCEPT ![r].total = (CHOOSE x \in c : TRUE).valor_total]
             /\ pc' = [pc EXCEPT ![r] = "s6"]
  /\ UNCHANGED <<db, resultado, resp, pre, interf, ultimo, lidas>>

\* calcular_percentual_carteira: get_carteira_ativos (expired by the commit,
\* so every row is reloaded) and the loop
S6(r) ==
  /\ pc[r] = "s6"
  /\ LET l == loc[r]
         rows == get_carteira_ativos(l.cid)
     IN loc' = [loc EXCEPT
                  ![r].ident = PorId(rows),
                  ![r].pct = [i \in {h.id : h \in {x \in rows : x.valor_atual # 0}} |->
                                Percentual(PorId(rows)[i].valor_atual, l.total)]]
  /\ pc' = [pc EXCEPT ![r] = "s7"]
  /\ UNCHANGED <<db, resultado, resp, pre, interf, ultimo, lidas>>

FlushPercentuais(rows, l) ==
  {IF h.id \in DOMAIN l.pct /\ l.pct[h.id] # l.ident[h.id].percentual_carteira
   THEN [h EXCEPT !.percentual_carteira = l.pct[h.id]]
   ELSE h : h \in rows}

\* calcular_percentual_carteira: db.commit()
S7(r) ==
  /\ pc[r] = "s7"
  /\ carteira_ativos' = FlushPercentuais(carteira_ativos, loc[r])
  /\ pc' = [pc EXCEPT ![r] = "s8"]
  /\ ultimo' = r
  /\ UNCHANGED <<ativos, cotacoes, carteiras, dividendos, transacoes, resultado, loc, resp, pre, interf, lidas>>

\* analisar_carteira: the report built from the reloaded holdings
\* variant: a holding without current value is left out of the cost basis
TotalInvestidoSoAvaliados(rows) ==
  LET com == {h \in rows : h.valor_atual # 0}
  IN SumFn([i \in {h.id : h \in com} |-> PorId(com)[i].valor_investido], {h.id : h \in com})

\* total_investido = sum(a["valor_investido"] for a in analise_ativos)
TotalInvestido(rows) ==
  SumFn([i \in {h.id : h \in rows} |-> PorId(rows)[i].valor_investido], {h.id : h \in rows})

\* (rentabilidade / investido * 100) if investido > 0 else 0
RentabilidadePct(rentabilidade, investido) ==
  IF investido > 0 THEN (rentabilidade * 100 * PctEscala) \div investido ELSE 0

\* ca.ativo.setor or "Nao classificado"
SetorDe(h) ==
  LET setor == (CHOOSE a \in get_ativo(h.ativo_id) : TRUE).setor
  IN IF setor = SetorNulo THEN NaoClassificado ELSE setor

\* variant: holdings whose asset has no sector are left out
DiversificacaoSemPadrao(rows, valor_total_carteira) ==
  LET com == {h \in rows : SetorDe(h) # NaoClassificado} IN
  [setor \in {SetorDe(h) : h \in com} |->
     LET meus == {h \in com : SetorDe(h) = setor}
         valor == SumFn([i \in {h.id : h \in meus} |-> PorId(meus)[i].valor_atual],
                        {h.id : h \in meus})
     IN [valor |-> valor,
         percentual |-> IF valor_total_carteira > 0
                        THEN Percentual(valor, valor_total_carteira) ELSE 0]]

\* the dict setores: current value and share of each sector
Diversificacao(rows, valor_total_carteira) ==
  [setor \in {SetorDe(h) : h \in rows} |->
     LET meus == {h \in rows : SetorDe(h) = setor}
         valor == SumFn([i \in {h.id : h \in meus} |-> PorId(meus)[i].valor_atual],
                        {h.id : h \in meus})
     IN [valor |-> valor,
         percentual |-> IF valor_total_carteira > 0
                        THEN Percentual(valor, valor_total_carteira) ELSE 0]]

Relatorio(rows) ==
  LET valor_total_carteira ==
        SumFn([i \in {h.id : h \in rows} |-> PorId(rows)[i].valor_atual], {h.id : h \in rows})
      total_investido == TotalInvestido(rows)
  IN [ativos |-> [i \in {h.id : h \in rows} |->
                    [quantidade |-> PorId(rows)[i].quantidade,
                     valor_investido |-> PorId(rows)[i].valor_investido,
                     valor_atual |-> PorId(rows)[i].valor_atual,
                     percentual_carteira |-> PorId(rows)[i].percentual_carteira]],
      valor_total |-> valor_total_carteira,
      total_investido |-> total_investido,
      rentabilidade_total |-> valor_total_carteira - total_investido,
      rentabilidade_percentual |->
        RentabilidadePct(valor_total_carteira - total_investido, total_investido),
      diversificacao_setorial |-> Diversificacao(rows, valor_total_carteira)]

\* the reload and the answer of the route
S8(r) ==
  /\ pc[r] = "s8"
  /\ LET l == loc[r]
         rows == get_carteira_ativos(l.cid)
     IN resp' = [resp EXCEPT ![r] =
          [kind |-> l.kind, cid |-> l.cid,
           out |-> IF l.kind = "analisar_carteira"
                   THEN IF \E h \in rows : get_ativo(h.ativo_id) = {}
                        THEN [status |-> 500]
                        ELSE Relatorio(rows)
                   ELSE IF get_carteira(l.cid) = {} THEN [status |-> 500]
                        ELSE [valor_total |-> (CHOOSE c \in get_carteira(l.cid) : TRUE).valor_total,
                              ativos |-> Relatorio(rows).ativos]]]
  /\ pc' = [pc EXCEPT ![r] = "done"]
  /\ UNCHANGED <<db, resultado, loc, pre, interf, ultimo, lidas>>

\* --------------------------- a portfolio read run without interleaving
\* variant: the value of a holding is added to the value it had
RecalculoAcumula(cid, cs, cas) ==
  LET cas1 == {IF h.carteira_id = cid
               THEN [h EXCEPT !.valor_atual = @ + ValorAtual(cotacoes, h.quantidade, h.ativo_id)]
               ELSE h : h \in cas}
      mine == {h \in cas1 : h.carteira_id = cid}
      valor_total == SumFn([i \in {h.id : h \in mine} |-> PorId(mine)[i].valor_atual],
                           {h.id : h \in mine})
      cs1 == {IF c.id = cid THEN [c EXCEPT !.valor_total = valor_total] ELSE c : c \in cs}
      cas2 == IF (\A c \in cs1 : c.id # cid) \/ valor_total = 0 THEN cas1
              ELSE {IF h.carteira_id = cid /\ h.valor_atual # 0
                    THEN [h EXCEPT !.percentual_carteira = Percentual(h.valor_atual, valor_total)]
                    ELSE h : h \in cas1}
  IN [carteiras |-> cs1, carteira_ativos |-> cas2]

\* atualizar_valor_carteira followed by calcular_percentual_carteira on the
\* tables cs (carteiras) and cas (carteira_ativos)
Recalculo(cid, cs, cas) ==
  LET cas1 == {IF h.carteira_id = cid
               THEN [h EXCEPT !.valor_atual = ValorAtual(cotacoes, h.quantidade, h.ativo_id)]
               ELSE h : h \in cas}
      mine == {h \in cas1 : h.carteira_id = cid}
      valor_total == SumFn([i \in {h.id : h \in mine} |-> PorId(mine)[i].valor_atual],
                           {h.id : h \in mine})
      cs1 == {IF c.id = cid THEN [c EXCEPT !.valor_total = valor_total] ELSE c : c \in cs}
      cas2 == IF (\A c \in cs1 : c.id # cid) \/ valor_total = 0 THEN cas1
              ELSE {IF h.carteira_id = cid /\ h.valor_atual # 0
                    THEN [h EXCEPT !.percentual_carteira = Percentual(h.valor_atual, valor_total)]
                    ELSE h : h \in cas1}
  IN [carteiras |-> cs1, carteira_ativos |-> cas2]

\* the whole handler: analisar_carteira (service) or get_wallet (route)
LerCarteira(kind, cid, cs, cas) ==
  LET rows == {h \in cas : h.carteira_id = cid}
      same(out) == [carteiras |-> cs, carteira_ativos |-> cas, out |-> out]
  IN IF CarteiraVazia(kind, rows) THEN same([error |-> ErroCarteiraVazia])
     ELSE IF kind = "get_wallet" /\ (\A c \in cs : c.id # cid) THEN same([status |-> 404])
     ELSE IF \E h \in rows : get_ativo(h.ativo_id) = {} THEN same([status |-> 500])
     ELSE LET n == Recalculo(cid, cs, cas)
              rows2 == {h \in n.carteira_ativos : h.carteira_id = cid}
          IN [carteiras |-> n.carteiras, carteira_ativos |-> n.carteira_ativos,
              out |-> IF kind = "analisar_carteira" THEN Relatorio(rows2)
                      ELSE [valor_total |-> (CHOOSE c \in n.carteiras : c.id = cid).valor_total,
                            ativos |-> Relatorio(rows2).ativos]]

\* a portfolio read served from start to end with nothing in between
Ler(r, kind, cid) ==
  /\ AllIdle
  /\ LET n == LerCarteira(kind, cid, carteiras, carteira_ativos)
     IN /\ carteiras' = n.carteiras
        /\ carteira_ativos' = n.carteira_ativos
        /\ resp' = [resp EXCEPT ![r] = [kind |-> kind, cid |-> cid, out |-> n.out]]
  /\ pc' = [pc EXCEPT ![r] = "done"]
  /\ pre' = [on |-> TRUE, n |-> 1, conc |-> FALSE, carteiras |-> carteiras,
             carteira_ativos |-> carteira_ativos]
  /\ UNCHANGED <<ativos, cotacoes, dividendos, transacoes, resultado, loc, interf, ultimo, lidas>>

\* the answer is delivered and the session closed
Finish(r) ==
  /\ pc[r] = "done"
  /\ pc' = [pc EXCEPT ![r] = "idle"]
  /\ loc' = [loc EXCEPT ![r] = LocVazio]
  /\ resp' = [resp EXCEPT ![r] = RespVazia]
  /\ IF \A o \in Reqs \ {r} : pc[o] = "idle"
     THEN pre' = [on |-> FALSE] /\ interf' = FALSE /\ ultimo' = "none"
     ELSE UNCHANGED <<pre, interf, ultimo>>
  /\ UNCHANGED <<db, resultado, lidas>>

Step(r) == S1(r) \/ S2(r) \/ S3(r) \/ S4(r) \/ S5(r) \/ S6(r) \/ S7(r) \/ S8(r)

\* crud.create_dividendo for a stored asset; one dividend per (ativo_id, data_ex)
CreateDividendo(aid, t) ==
  /\ AllIdle
  /\ get_ativo(aid) # {}
  /\ Cardinality(dividendos) < MaxDividendos
  /\ \A d \in dividendos : ~(d.ativo_id = aid /\ d.data_ex = t)
  /\ dividendos' = dividendos \cup {[ativo_id |-> aid, data_ex |-> t, valor |-> 1]}
  /\ UNCHANGED <<transacoes, ativos, cotacoes, carteiras, carteira_ativos, resultado>>
  /\ UNCH_req

\* --------------------------------------------- asset analytics actions
\* variant: the analysis consumes the dividends it read
AnalisarAtivoPersiste(tk, periodo_dias, now) ==
  /\ AllIdle
  /\ resultado' = [op |-> "analisar_ativo", ticker |-> tk, periodo_dias |-> periodo_dias,
                   now |-> now, out |-> analisar_ativo(tk, periodo_dias, now)]
  /\ dividendos' = {}
  /\ UNCHANGED <<transacoes, ativos, cotacoes, carteiras, carteira_ativos>>
  /\ UNCH_req

AnalisarAtivo(tk, periodo_dias, now) ==
  /\ AllIdle
  /\ resultado' = [op |-> "analisar_ativo", ticker |-> tk, periodo_dias |-> periodo_dias,
                   now |-> now, out |-> analisar_ativo(tk, periodo_dias, now)]
  /\ UNCHANGED db
  /\ UNCH_req

TickerLists == UNION {[1..n -> Tickers] : n \in 0..MaxTickers}

CompararAtivos(tickers, periodo_dias, now) ==
  /\ AllIdle
  /\ resultado' = [op |-> "comparar_ativos", tickers |-> tickers, periodo_dias |-> periodo_dias,
                   now |-> now, out |-> comparar_ativos(tickers, periodo_dias, now)]
  /\ UNCHANGED db
  /\ UNCH_req

\* the route returns the answer to the caller
Responder ==
  /\ resultado.op # "none"
  /\ ~("pendente" \in DOMAIN resultado /\ resultado.pendente)
  /\ resultado' = [op |-> "none"]
  /\ UNCHANGED db
  /\ UNCH_req

\* ------------------------------------------------------ specifications
Init ==
  /\ ativos = {}
  /\ cotacoes = {}
  /\ carteiras = {}
  /\ carteira_ativos = {}
  /\ dividendos = {}
  /\ transacoes = {}
  /\ resultado = [op |-> "none"]
  /\ pc = [r \in Reqs |-> "idle"]
  /\ loc = [r \in Reqs |-> LocVazio]
  /\ resp = [r \in Reqs |-> RespVazia]
  /\ pre = [on |-> FALSE]
  /\ interf = FALSE
  /\ ultimo = "none"
  /\ lidas = 0

NextAtivo ==
  \/ \E tk \in Tickers : CreateAtivo(tk)
  \/ \E aid \in AtivoIds, t \in Times, p \in Precos : CreateCotacao(aid, t, p)
  \/ \E aid \in AtivoIds, t \in TimesDividendo : CreateDividendo(aid, t)
  \/ \E tk \in Tickers, d \in Periodos, now \in Times : AnalisarAtivo(tk, d, now)
  \/ \E tks \in TickerLists, d \in Periodos, now \in Times : CompararAtivos(tks, d, now)
  \/ Responder

SpecAtivo == Init /\ [][NextAtivo]_vars

Setup ==
  \/ \E tk \in Tickers : CreateAtivo(tk)
  \/ CreateCarteira
  \/ \E cid \in CarteiraIds, aid \in AtivoIds, q \in Quantidades : AddAsset(cid, aid, q)
  \/ \E hid \in HoldingIds : RemoveAsset(hid)

\* one portfolio read at a time, the store changes only between reads
NextCarteira ==
  \/ Setup
  \/ \E aid \in AtivoIds, t \in TimesCarteira, p \in Precos : CreateCotacao(aid, t, p)
  \/ \E kind \in Kinds, cid \in CarteiraIds : Ler("r1", kind, cid)
  \/ Finish("r1")

SpecCarteira == Init /\ [][NextCarteira]_vars

\* a store the set-up routes produce: both assets with a first quote, both
\* wallets, and one of a few sets of freshly added holdings
Novo(i, cid, aid, q) ==
  [id |-> i, carteira_id |-> cid, ativo_id |-> aid, quantidade |-> q,
   valor_investido |-> q, valor_atual |-> 0, percentual_carteira |-> 0]

HoldingsConc ==
  {{Novo(1, 1, 1, 1), Novo(2, 1, 2, 1)},
   {Novo(1, 1, 1, 1), Novo(2, 2, 1, MaxQtd)},
   {Novo(1, 1, 1, MaxQtd), Novo(2, 2, 2, 1)}}

InitConc ==
  /\ ativos = {[id |-> 1, ticker |-> "A", setor |-> SetorNulo],
               [id |-> 2, ticker |-> "B", setor |-> SetorNulo]}
  /\ cotacoes = {[ativo_id |-> a, data_hora |-> 1, preco_fechamento |-> 1] : a \in 1..2}
  /\ carteiras = {[id |-> c, valor_total |-> 0, ativa |-> TRUE] : c \in 1..2}
  /\ carteira_ativos \in HoldingsConc
  /\ dividendos = {}
  /\ transacoes = {}
  /\ resultado = [op |-> "none"]
  /\ pc = [r \in Reqs |-> "idle"]
  /\ loc = [r \in Reqs |-> LocVazio]
  /\ resp = [r \in Reqs |-> RespVazia]
  /\ pre = [on |-> FALSE]
  /\ interf = FALSE
  /\ ultimo = "none"
  /\ lidas = 0

\* portfolio reads interleave with each other and with arriving quotes
NextConc ==
  \/ \E aid \in AtivoIds, t \in TimesCarteira, p \in PrecosConc : CreateCotacaoConc(aid, t, p)
  \/ \E r \in Reqs, kind \in Kinds, cid \in CarteiraIds : Start(r, kind, cid)
  \/ \E r \in Reqs : Step(r)
  \/ \E r \in Reqs : Finish(r)

SpecConc == InitConc /\ [][NextConc]_vars

\* ------------------------------------------- the figures of the report
QtdsRelatorio == (1..MaxQtdRelatorio) \cup {5, 10}
PrecosRelatorio == (0..MaxPrecoRelatorio) \cup {50, 200}
Investidos == (0..MaxInvestido) \cup {400, 900}

\* a holding added with its quantity and recorded cost basis
Posicao(i, aid, q, vi) ==
  [id |-> i, carteira_id |-> 1, ativo_id |-> aid, quantidade |-> q,
   valor_investido |-> vi, valor_atual |-> 0, percentual_carteira |-> 0]

\* a store the set-up routes produce: two assets with or without a sector,
\* one quote each, one wallet holding both
InitRelatorio ==
  /\ \E s1, s2 \in Setores :
       ativos = {[id |-> 1, ticker |-> "A", setor |-> s1],
                 [id |-> 2, ticker |-> "B", setor |-> s2]}
  /\ \E p1, p2 \in PrecosRelatorio :
       cotacoes = {[ativo_id |-> 1, data_hora |-> 1, preco_fechamento |-> p1],
                   [ativo_id |-> 2, data_hora |-> 1, preco_fechamento |-> p2]}
  /\ carteiras = {[id |-> 1, valor_total |-> 0, ativa |-> TRUE]}
  /\ \E q1, q2 \in QtdsRelatorio, v1, v2 \in Investidos :
       carteira_ativos = {Posicao(1, 1, q1, v1), Posicao(2, 2, q2, v2)}
  /\ dividendos = {}
  /\ transacoes = {}
  /\ resultado = [op |-> "none"]
  /\ pc = [r \in Reqs |-> "idle"]
  /\ loc = [r \in Reqs |-> LocVazio]
  /\ resp = [r \in Reqs |-> RespVazia]
  /\ pre = [on |-> FALSE]
  /\ interf = FALSE
  /\ ultimo = "none"
  /\ lidas = 0

NextRelatorio ==
  \/ \E kind \in Kinds : Ler("r1", kind, 1)
  \/ Finish("r1")

SpecRelatorio == InitRelatorio /\ [][NextRelatorio]_vars

\* ------------------------------------------- the external quote provider
\* what the provider does at each successive request of one operation
RespostasHTTP == {"ok", "erro_http", "erro_rede"}
Tentativas == [1..MaxTentativas -> RespostasHTTP]
TimesSync == 1..MaxTimeSync

\* one result of the payload: symbol, regularMarketPrice, cashDividends
Itens == [ticker : Tickers, preco : Precos, dividendo : BOOLEAN]
Payloads == UNION {[1..n -> Itens] : n \in 0..MaxItens}

\* the JSON body of a 200 answer: with or without the key "results"
Corpos == {[tem_results |-> FALSE, results |-> <<>>]}
            \cup {[tem_results |-> TRUE, results |-> its] : its \in Payloads}

\* BrapiService._make_request: one requests.get; on HTTPError or
\* RequestException the failure value (None; {"error": ...} in the older
\* client), which has no key "results"
make_request(respostas, corpo, legado) ==
  IF respostas[1] = "ok"
  THEN [pedidos |-> 1, falhou |-> FALSE, valor |-> corpo]
  ELSE [pedidos |-> 1, falhou |-> TRUE, valor |-> [tem_results |-> FALSE, results |-> <<>>]]

\* the loop over the parsed items.  Every crud call commits; a duplicate
\* (ativo_id, data_hora) or (ativo_id, data_ex) raises IntegrityError, which
\* ends the loop with what was committed before.  The newer route upper-cases
\* the ticker and skips a current price that is falsy.
RECURSIVE ProcessaItens(_, _, _, _)
ProcessaItens(itens, st, now, legado) ==
  IF itens = <<>> \/ st.falhou THEN st
  ELSE LET item == Head(itens)
           tk == IF legado THEN item.ticker ELSE Upper(item.ticker)
           achados == {a \in st.ativos : a.ticker = tk}
           aid == IF achados = {} THEN Cardinality(st.ativos) + 1
                  ELSE (CHOOSE a \in achados : TRUE).id
           ativos1 == IF achados = {}
                      THEN st.ativos \cup {[id |-> aid, ticker |-> tk, setor |-> SetorNulo]}
                      ELSE st.ativos
           insere == legado \/ item.preco # 0
           duplicada == \E c \in st.cotacoes : c.ativo_id = aid /\ c.data_hora = now
           cotacoes1 == IF insere /\ ~duplicada
                        THEN st.cotacoes \cup {[ativo_id |-> aid, data_hora |-> now,
                                                preco_fechamento |-> item.preco]}
                        ELSE st.cotacoes
           repetido == \E d \in st.dividendos : d.ativo_id = aid /\ d.data_ex = 1
           dividendos1 == IF item.dividendo /\ ~repetido
                          THEN st.dividendos \cup {[ativo_id |-> aid, data_ex |-> 1, valor |-> 1]}
                          ELSE st.dividendos
       IN IF insere /\ duplicada
          THEN [st EXCEPT !.ativos = ativos1, !.falhou = TRUE]
          ELSE IF item.dividendo /\ repetido
          THEN [st EXCEPT !.ativos = ativos1, !.cotacoes = cotacoes1, !.falhou = TRUE]
          ELSE ProcessaItens(Tail(itens),
                             [ativos |-> ativos1, cotacoes |-> cotacoes1,
                              dividendos |-> dividendos1, falhou |-> FALSE,
                              atualizados |-> Append(st.atualizados, tk)],
                             now, legado)

Armazenado == [ativos |-> ativos, cotacoes |-> cotacoes, dividendos |-> dividendos,
               falhou |-> FALSE, atualizados |-> <<>>]

\* src/src/main.py sync_quotes: the 404 raised without data is caught by the
\* handler's own except Exception and answered as 500, like every exception
SyncQuotes(respostas, corpo, now) ==
  /\ AllIdle
  /\ LET cliente == make_request(respostas, corpo, FALSE)
         st == IF cliente.valor.tem_results
               THEN ProcessaItens(cliente.valor.results, Armazenado, now, FALSE)
               ELSE Armazenado
         erro == ~cliente.valor.tem_results \/ st.falhou
     IN /\ ativos' = st.ativos
        /\ cotacoes' = st.cotacoes
        /\ dividendos' = st.dividendos
        /\ resultado' = [op |-> "sync_quotes", primeira |-> respostas[1], pendente |-> FALSE,
                         pedidos |-> cliente.pedidos, cliente_falhou |-> cliente.falhou,
                         falhou |-> cliente.falhou \/ erro,
                         out |-> IF erro THEN [status |-> 500, sucesso |-> FALSE]
                                 ELSE [status |-> 201, sucesso |-> TRUE,
                                       tickers_atualizados |-> st.atualizados]]
  /\ UNCHANGED <<transacoes, carteiras, carteira_ativos>>
  /\ UNCH_req

\* src/main.py buscar_dados_externos: the task is queued and the success
\* message is answered before anything is fetched
BuscarDadosExternos ==
  /\ AllIdle
  /\ resultado' = [op |-> "buscar_dados_externos", primeira |-> "nenhuma", pendente |-> TRUE,
                   pedidos |-> 0, cliente_falhou |-> FALSE, falhou |-> FALSE,
                   out |-> [status |-> 200, sucesso |-> TRUE]]
  /\ UNCHANGED db
  /\ UNCH_req

\* processar_dados_externos, the background task: it returns on an error of
\* the client and prints any exception
ProcessarDadosExternos(respostas, corpo, now) ==
  /\ resultado.op = "buscar_dados_externos"
  /\ resultado.pendente
  /\ LET cliente == make_request(respostas, corpo, TRUE)
         st == IF cliente.valor.tem_results
               THEN ProcessaItens(cliente.valor.results, Armazenado, now, TRUE)
               ELSE Armazenado
     IN /\ ativos' = st.ativos
        /\ cotacoes' = st.cotacoes
        /\ dividendos' = st.dividendos
        /\ resultado' = [resultado EXCEPT !.pendente = FALSE,
                                          !.primeira = respostas[1],
                                          !.pedidos = cliente.pedidos,
                                          !.cliente_falhou = cliente.falhou,
                                          !.falhou = cliente.falhou \/ st.falhou]
  /\ UNCHANGED <<transacoes, carteiras, carteira_ativos>>
  /\ UNCH_req

NextSync ==
  \/ \E respostas \in Tentativas, corpo \in Corpos, now \in TimesSync :
       SyncQuotes(respostas, corpo, now)
  \/ BuscarDadosExternos
  \/ \E respostas \in Tentativas, corpo \in Corpos, now \in TimesSync :
       ProcessarDadosExternos(respostas, corpo, now)
  \/ Responder

SpecSync == Init /\ [][NextSync]_vars

\* ------------------------------------------- entry points and letter case
\* tickers as the caller may write them
TickersCaixa == {"A", "a"}

\* the ticker handed to the service by each entry point: the analytics
\* router upper-cases it, main.analyze_stock passes it as received
TickerDaEntrada(entrada, tk) == IF entrada = "rota_analisar_ativo" THEN Upper(tk) ELSE tk

Entradas == {"analyze_stock", "rota_analisar_ativo"}

Entrada(entrada, tk, periodo_dias, now) ==
  analisar_ativo(TickerDaEntrada(entrada, tk), periodo_dias, now)

\* main.py analyze_stock
AnalyzeStock(tk, periodo_dias, now) ==
  /\ AllIdle
  /\ resultado' = [op |-> "analyze_stock", ticker |-> tk, periodo_dias |-> periodo_dias,
                   now |-> now, out |-> Entrada("analyze_stock", tk, periodo_dias, now)]
  /\ UNCHANGED db
  /\ UNCH_req

\* the status a route of routers/analytics.py answers: levantada is the status
\* of the HTTPException raised inside its try block (0 when none is raised).
\* Only a handler with "except HTTPException: raise" lets it through; the
\* "except Exception" clause catches it and raises 500 in its place.
RespostaDaRota(levantada, relanca_http) ==
  IF levantada = 0 THEN 200
  ELSE IF relanca_http THEN levantada
  ELSE 500

\* routers/analytics.py analisar_ativo
AnalisarAtivoRota(tk, periodo_dias, now) ==
  /\ AllIdle
  /\ resultado' = [op |-> "rota_analisar_ativo", ticker |-> tk, periodo_dias |-> periodo_dias,
                   now |-> now, out |-> Entrada("rota_analisar_ativo", tk, periodo_dias, now),
                   status |-> RespostaDaRota(
                                IF TemErro(Entrada("rota_analisar_ativo", tk, periodo_dias, now))
                                THEN 404 ELSE 0, TRUE)]
  /\ UNCHANGED db
  /\ UNCH_req

\* assets are registered with the ticker as written in the request
NextTicker ==
  \/ \E tk \in TickersCaixa : CreateAtivo(tk)
  \/ \E aid \in AtivoIds, t \in Times, p \in Precos : CreateCotacao(aid, t, p)
  \/ \E tk \in TickersCaixa, d \in Periodos, now \in Times : AnalyzeStock(tk, d, now)
  \/ \E tk \in TickersCaixa, d \in Periodos, now \in Times : AnalisarAtivoRota(tk, d, now)
  \/ Responder

SpecTicker == Init /\ [][NextTicker]_vars

\* ------------------------------------------- the formulas on a price series
\* a series of closing prices is stored as the quotes of one asset at the
\* instants 1..n; the formulas are applied to what the store returns
TimesFormula == 1..MaxLenFormula
PrecosFormula == {0, 99, 110, 121} \cup (100..(100 + MaxVariacao))
Series == UNION {[1..n -> PrecosFormula] : n \in 0..MaxLenFormula}

\* the closing prices of asset 1, ascending by data_hora
SerieArmazenada == get_cotacoes_periodo(1, 1, MaxLenFormula)

InitFormulas ==
  /\ ativos = {[id |-> 1, ticker |-> "A", setor |-> SetorNulo]}
  /\ \E serie \in Series :
       cotacoes = {[ativo_id |-> 1, data_hora |-> i, preco_fechamento |-> serie[i]] :
                     i \in 1..Len(serie)}
  /\ carteiras = {}
  /\ carteira_ativos = {}
  /\ dividendos = {}
  /\ transacoes = {}
  /\ resultado = [op |-> "none"]
  /\ pc = [r \in Reqs |-> "idle"]
  /\ loc = [r \in Reqs |-> LocVazio]
  /\ resp = [r \in Reqs |-> RespVazia]
  /\ pre = [on |-> FALSE]
  /\ interf = FALSE
  /\ ultimo = "none"
  /\ lidas = 0

CalcularDrawdown ==
  /\ AllIdle
  /\ resultado' = [op |-> "calcular_drawdown", precos |-> SerieArmazenada,
                   out |-> calcular_drawdown(SerieArmazenada)]
  /\ UNCHANGED db
  /\ UNCH_req

CalcularRetornoComposto ==
  /\ AllIdle
  /\ resultado' = [op |-> "calcular_retorno_composto", precos |-> SerieArmazenada,
                   out |-> calcular_retorno_composto(SerieArmazenada)]
  /\ UNCHANGED db
  /\ UNCH_req

NextFormulas ==
  \/ CalcularDrawdown
  \/ CalcularRetornoComposto
  \/ \E periodo_dias \in 0..MaxLenFormula, now \in TimesFormula :
       AnalisarAtivo("A", periodo_dias, now)
  \/ Responder

SpecFormulas == InitFormulas /\ [][NextFormulas]_vars

\* ------------------------------------------- the formulas on a return series
RetornosFormula == {0 - 100, 100, 222} \cup (0..MaxRetorno)
SeriesDeRetornos == UNION {[1..n -> RetornosFormula] : n \in 0..MaxLenRetornos}

CalcularVolatilidade(retornos) ==
  /\ AllIdle
  /\ resultado' = [op |-> "calcular_volatilidade", retornos |-> retornos,
                   out |-> calcular_volatilidade(retornos)]
  /\ UNCHANGED db
  /\ UNCH_req

CalcularSharpeRatio(retornos) ==
  /\ AllIdle
  /\ resultado' = [op |-> "calcular_sharpe_ratio", retornos |-> retornos,
                   out |-> calcular_sharpe_ratio(retornos)]
  /\ UNCHANGED db
  /\ UNCH_req

\* np.mean and np.std work in binary floating point, where every addition
\* and the division round to the nearest value of MantissaBits significant
\* bits, ties to even.  The values here are whole mantissas of one binade.
RECURSIVE Pot2(_)
Pot2(k) == IF k = 0 THEN 1 ELSE 2 * Pot2(k - 1)

Mantissas == Pot2(MantissaBits - 1)..(Pot2(MantissaBits) - 1)
SeriesBinarias == UNION {[1..n -> Mantissas] : n \in 2..MaxLenRetornos}

\* the spacing of the representable values around x
RECURSIVE UnidadeDe(_, _)
UnidadeDe(x, u) == IF x < Pot2(MantissaBits) * u THEN u ELSE UnidadeDe(x, 2 * u)

\* num / den rounded to a multiple of u, ties to the even multiple
ArredondaPar(num, den, u) ==
  LET q == num \div (den * u)
      r == num % (den * u)
  IN IF 2 * r > den * u \/ (2 * r = den * u /\ q % 2 = 1) THEN (q + 1) * u ELSE q * u

Flutuante(num, den) == ArredondaPar(num, den, UnidadeDe(num \div den, 1))

\* the running sum of np.mean, rounded after every addition
RECURSIVE np_sum(_)
np_sum(retornos) ==
  IF retornos = <<>> THEN 0
  ELSE Flutuante(np_sum(SubSeq(retornos, 1, Len(retornos) - 1))
                   + retornos[Len(retornos)], 1)

np_mean(retornos) == Flutuante(np_sum(retornos), Len(retornos))

\* np.std(retornos, ddof=1) == 0: every deviation from the mean is exactly 0
np_std_nulo(retornos) == \A i \in 1..Len(retornos) : retornos[i] = np_mean(retornos)

\* calcular_volatilidade on floats: whether the volatility compares equal to
\* 0, which is what calcular_sharpe_ratio tests before it divides
VolatilidadeBinaria(retornos) ==
  /\ AllIdle
  /\ resultado' = [op |-> "volatilidade_binaria", retornos |-> retornos,
                   media |-> np_mean(retornos), nula |-> np_std_nulo(retornos)]
  /\ UNCHANGED db
  /\ UNCH_req

NextRetornos ==
  \/ \E retornos \in SeriesDeRetornos : CalcularVolatilidade(retornos)
  \/ \E retornos \in SeriesDeRetornos : CalcularSharpeRatio(retornos)
  \/ \E retornos \in SeriesBinarias : VolatilidadeBinaria(retornos)
  \/ Responder

SpecRetornos == Init /\ [][NextRetornos]_vars

\* ------------------------------------------- the analytics routes
\* gerar_grafico_performance: "" without the asset or with fewer than 2 quotes
gerar_grafico_performance(tk, periodo_dias, now) ==
  IF get_ativo_by_ticker(tk) = {} THEN ""
  ELSE LET ativo == CHOOSE a \in get_ativo_by_ticker(tk) : TRUE
       IN IF Len(get_cotacoes_periodo(ativo.id, now - periodo_dias, now)) < 2 THEN ""
          ELSE "html"

\* routers/analytics.py comparar_ativos: the 400 is raised inside the try
\* block, whose only clause is except Exception
CompararAtivosRota(tickers, periodo_dias, now) ==
  /\ AllIdle
  /\ LET tickers_upper == [i \in 1..Len(tickers) |-> Upper(tickers[i])]
         res == comparar_ativos(tickers_upper, periodo_dias, now)
     IN resultado' = [op |-> "rota_comparar_ativos", tickers |-> tickers,
                      periodo_dias |-> periodo_dias, now |-> now, out |-> res,
                      status |-> RespostaDaRota(IF TemErro(res) THEN 400 ELSE 0, FALSE)]
  /\ UNCHANGED db
  /\ UNCH_req

\* routers/analytics.py grafico_performance: the same shape with 404
GraficoPerformance(tk, periodo_dias, now) ==
  /\ AllIdle
  /\ LET html_grafico == gerar_grafico_performance(Upper(tk), periodo_dias, now)
     IN resultado' = [op |-> "rota_grafico_performance", ticker |-> tk,
                      periodo_dias |-> periodo_dias, now |-> now, out |-> html_grafico,
                      status |-> RespostaDaRota(IF html_grafico = "" THEN 404 ELSE 0, FALSE)]
  /\ UNCHANGED db
  /\ UNCH_req

NextRotas ==
  \/ \E tk \in Tickers : CreateAtivo(tk)
  \/ \E aid \in AtivoIds, t \in Times, p \in Precos : CreateCotacao(aid, t, p)
  \/ \E tk \in Tickers, d \in Periodos, now \in Times : AnalisarAtivoRota(tk, d, now)
  \/ \E tks \in TickerLists, d \in Periodos, now \in Times : CompararAtivosRota(tks, d, now)
  \/ \E tk \in Tickers, d \in Periodos, now \in Times : GraficoPerformance(tk, d, now)
  \/ Responder

SpecRotas == Init /\ [][NextRotas]_vars

\* ------------------------------------------- asset registration, answered
TickersPedidos == Tickers \cup TickersCaixa

\* variant: the ticker is not looked up before the insertion
CreateAtivoRotaSemBusca(tk) ==
  /\ AllIdle
  /\ ativos' = ativos \cup {[id |-> Cardinality(ativos) + 1, ticker |-> tk,
                             setor |-> SetorNulo]}
  /\ resultado' = [op |-> "create_ativo", ticker |-> tk, out |-> [status |-> 201]]
  /\ UNCHANGED <<cotacoes, carteiras, carteira_ativos, dividendos, transacoes>>
  /\ UNCH_req

\* routers/ativos.py create_ativo with its answer: 400 for a registered
\* ticker, otherwise the asset is stored under the ticker as received
CreateAtivoRota(tk) ==
  /\ AllIdle
  /\ IF get_ativo_by_ticker(tk) # {}
     THEN /\ resultado' = [op |-> "create_ativo", ticker |-> tk, out |-> [status |-> 400]]
          /\ UNCHANGED ativos
     ELSE /\ ativos' = ativos \cup {[id |-> Cardinality(ativos) + 1, ticker |-> tk,
                                     setor |-> SetorNulo]}
          /\ resultado' = [op |-> "create_ativo", ticker |-> tk, out |-> [status |-> 201]]
  /\ UNCHANGED <<cotacoes, carteiras, carteira_ativos, dividendos, transacoes>>
  /\ UNCH_req

\* src/main.py criar_ativo: looks up and stores the upper-cased ticker
CriarAtivo(tk) ==
  /\ AllIdle
  /\ IF get_ativo_by_ticker(Upper(tk)) # {}
     THEN /\ resultado' = [op |-> "criar_ativo", ticker |-> tk, out |-> [status |-> 400]]
          /\ UNCHANGED ativos
     ELSE /\ ativos' = ativos \cup {[id |-> Cardinality(ativos) + 1, ticker |-> Upper(tk),
                                     setor |-> SetorNulo]}
          /\ resultado' = [op |-> "criar_ativo", ticker |-> tk, out |-> [status |-> 200]]
  /\ UNCHANGED <<cotacoes, carteiras, carteira_ativos, dividendos, transacoes>>
  /\ UNCH_req

NextRegistro ==
  \/ \E tk \in TickersPedidos : CreateAtivoRota(tk)
  \/ \E tk \in TickersPedidos : CriarAtivo(tk)
  \/ \E respostas \in Tentativas, corpo \in Corpos, now \in TimesSync :
       SyncQuotes(respostas, corpo, now)
  \/ Responder

SpecRegistro == Init /\ [][NextRegistro]_vars

\* ------------------------------------------- adding holdings, step by step
\* routers/wallet.py add_asset_to_wallet up to the call of
\* create_carteira_ativo: get_carteira, get_carteira_ativo and their errors
AddVerifica(r, cid, aid, q) ==
  /\ resultado.op = "none"
  /\ pc[r] = "idle"
  /\ ProximoId(carteira_ativos) <= MaxHoldings
  /\ IF get_carteira(cid) = {}
     THEN /\ pc' = [pc EXCEPT ![r] = "done"]
          /\ resp' = [resp EXCEPT ![r] = [kind |-> "add_asset", cid |-> cid, aid |-> aid,
                                          q |-> q, existia |-> FALSE, status |-> 404]]
     ELSE IF get_carteira_ativo(cid, aid) # {}
     THEN /\ pc' = [pc EXCEPT ![r] = "done"]
          /\ resp' = [resp EXCEPT ![r] = [kind |-> "add_asset", cid |-> cid, aid |-> aid,
                                          q |-> q, existia |-> TRUE, status |-> 409]]
     ELSE /\ pc' = [pc EXCEPT ![r] = "inserir"]
          /\ resp' = [resp EXCEPT ![r] = [kind |-> "add_asset", cid |-> cid, aid |-> aid,
                                          q |-> q, existia |-> FALSE, status |-> 0]]
  /\ UNCHANGED <<db, resultado, loc, pre, interf, ultimo, lidas>>

\* crud.create_carteira_ativo: db.add and db.commit.  The commit of a pair
\* that another request stored meanwhile breaks uq_carteira_ativo: the
\* IntegrityError is not handled by the route, which answers 500
AddInsere(r) ==
  /\ pc[r] = "inserir"
  /\ pc' = [pc EXCEPT ![r] = "done"]
  /\ IF get_carteira_ativo(resp[r].cid, resp[r].aid) # {}
     THEN /\ resp' = [resp EXCEPT ![r].existia = TRUE, ![r].status = 500]
          /\ UNCHANGED carteira_ativos
     ELSE /\ carteira_ativos' = carteira_ativos \cup
               {[id |-> ProximoId(carteira_ativos), carteira_id |-> resp[r].cid,
                 ativo_id |-> resp[r].aid, quantidade |-> resp[r].q,
                 valor_investido |-> resp[r].q, valor_atual |-> 0,
                 percentual_carteira |-> 0]}
          /\ resp' = [resp EXCEPT ![r].status = 201]
  /\ UNCHANGED <<ativos, cotacoes, carteiras, dividendos, transacoes, resultado, loc, pre, interf,
                 ultimo, lidas>>

\* both assets and one wallet are stored; wallet 2 does not exist
InitAdicionar ==
  /\ ativos = {[id |-> 1, ticker |-> "A", setor |-> SetorNulo],
               [id |-> 2, ticker |-> "B", setor |-> SetorNulo]}
  /\ cotacoes = {}
  /\ carteiras = {[id |-> 1, valor_total |-> 0, ativa |-> TRUE]}
  /\ carteira_ativos = {}
  /\ dividendos = {}
  /\ transacoes = {}
  /\ resultado = [op |-> "none"]
  /\ pc = [r \in Reqs |-> "idle"]
  /\ loc = [r \in Reqs |-> LocVazio]
  /\ resp = [r \in Reqs |-> RespVazia]
  /\ pre = [on |-> FALSE]
  /\ interf = FALSE
  /\ ultimo = "none"
  /\ lidas = 0

\* add requests interleave; a removal runs between requests
NextAdicionar ==
  \/ \E r \in Reqs, cid \in CarteiraIds, aid \in AtivoIds, q \in Quantidades :
       AddVerifica(r, cid, aid, q)
  \/ \E r \in Reqs : AddInsere(r)
  \/ \E r \in Reqs : Finish(r)
  \/ \E hid \in HoldingIds : RemoveAsset(hid)

SpecAdicionar == InitAdicionar /\ [][NextAdicionar]_vars

\* ------------------------------------------- transactions
\* variant: the transaction is applied to the holding of the asset
CreateTransactionAplica(cid, corpo_cid, aid, q) ==
  /\ AllIdle
  /\ Cardinality(transacoes) < MaxTransacoes
  /\ IF get_carteira(cid) = {}
     THEN /\ resultado' = [op |-> "create_transaction", cid |-> cid, corpo_cid |-> corpo_cid,
                           out |-> [status |-> 404]]
          /\ UNCHANGED <<transacoes, carteira_ativos>>
     ELSE /\ transacoes' = transacoes \cup
               {[id |-> Cardinality(transacoes) + 1, carteira_id |-> cid, ativo_id |-> aid,
                 quantidade |-> q]}
          /\ carteira_ativos' =
               {IF h.carteira_id = cid /\ h.ativo_id = aid
                THEN [h EXCEPT !.quantidade = @ + q] ELSE h : h \in carteira_ativos}
          /\ resultado' = [op |-> "create_transaction", cid |-> cid, corpo_cid |-> corpo_cid,
                           out |-> [status |-> 201]]
  /\ UNCHANGED <<ativos, cotacoes, carteiras, dividendos>>
  /\ UNCH_req

\* routers/wallet.py create_transaction: 404 without the wallet; the
\* carteira_id of the body is replaced by the one of the path; the row is
\* inserted and committed, and nothing else is written
CreateTransaction(cid, corpo_cid, aid, q) ==
  /\ AllIdle
  /\ Cardinality(transacoes) < MaxTransacoes
  /\ IF get_carteira(cid) = {}
     THEN /\ resultado' = [op |-> "create_transaction", cid |-> cid, corpo_cid |-> corpo_cid,
                           out |-> [status |-> 404]]
          /\ UNCHANGED <<transacoes, carteira_ativos>>
     ELSE /\ transacoes' = transacoes \cup
               {[id |-> Cardinality(transacoes) + 1, carteira_id |-> cid, ativo_id |-> aid,
                 quantidade |-> q]}
          /\ UNCHANGED carteira_ativos
          /\ resultado' = [op |-> "create_transaction", cid |-> cid, corpo_cid |-> corpo_cid,
                           out |-> [status |-> 201]]
  /\ UNCHANGED <<ativos, cotacoes, carteiras, dividendos>>
  /\ UNCH_req

NextTransacao ==
  \/ Setup
  \/ \E cid \in CarteiraIds, corpo_cid \in CarteiraIds, aid \in AtivoIds, q \in Quantidades :
       CreateTransaction(cid, corpo_cid, aid, q)
  \/ Responder

SpecTransacao == Init /\ [][NextTransacao]_vars

\* ------------------------------------------- deleting a wallet
\* crud.get_carteiras: the active wallets
get_carteiras == {c \in carteiras : c.ativa}

\* variant: the row is removed
delete_carteira_fisica(cid) == {c \in carteiras : c.id # cid}

\* crud.delete_carteira: the row is marked inactive and committed
delete_carteira(cid) ==
  {IF c.id = cid THEN [c EXCEPT !.ativa = FALSE] ELSE c : c \in carteiras}

\* routers/wallet.py delete_wallet: 404 when no row has the id
DeleteWallet(cid) ==
  /\ AllIdle
  /\ carteiras' = delete_carteira(cid)
  /\ resultado' = [op |-> "delete_wallet", cid |-> cid,
                   out |-> [status |-> IF get_carteira(cid) = {} THEN 404 ELSE 200]]
  /\ UNCHANGED <<ativos, cotacoes, carteira_ativos, dividendos, transacoes>>
  /\ UNCH_req

\* routers/wallet.py get_all_wallets
GetAllWallets ==
  /\ AllIdle
  /\ resultado' = [op |-> "get_all_wallets", out |-> get_carteiras]
  /\ UNCHANGED db
  /\ UNCH_req

NextExclusao ==
  \/ Setup
  \/ \E cid \in CarteiraIds, corpo_cid \in CarteiraIds, aid \in AtivoIds, q \in Quantidades :
       CreateTransaction(cid, corpo_cid, aid, q)
  \/ \E cid \in CarteiraIds : DeleteWallet(cid)
  \/ GetAllWallets
  \/ Responder

SpecExclusao == Init /\ [][NextExclusao]_vars

\* ---------------------------------------------------------------- claims
NaJanela(aid, periodo_dias, now) ==
  {c \in cotacoes : c.ativo_id = aid /\ c.data_hora >= now - periodo_dias /\ c.data_hora <= now}

\* C1: analisar_ativo on a stored asset with fewer than 2 quotes inside the
\* lookback window answers exactly the insufficient-data error: no metric is
\* part of the answer.
C1_DadosInsuficientes ==
  (resultado.op = "analisar_ativo" /\ get_ativo_by_ticker(resultado.ticker) # {})
    => \A a \in get_ativo_by_ticker(resultado.ticker) :
         Cardinality(NaJanela(a.id, resultado.periodo_dias, resultado.now)) < 2
           => resultado.out = [error |-> ErroInsuficiente]

C1_Witness ==
  /\ resultado.op = "analisar_ativo"
  /\ \E a \in get_ativo_by_ticker(resultado.ticker) :
       /\ Cardinality(NaJanela(a.id, resultado.periodo_dias, resultado.now)) = 1
       /\ Cardinality(CotacoesDe(cotacoes, a.id)) >= 2
  /\ resultado.out = [error |-> ErroInsuficiente]

Requisitados(tickers) == {tickers[i] : i \in 1..Len(tickers)}

Validos(tickers, periodo_dias, now) ==
  {tk \in Requisitados(tickers) : ~TemErro(analisar_ativo(tk, periodo_dias, now))}

\* C9: comparar_ativos answers the error iff no requested ticker has a
\* successful analysis; otherwise its table has one row for each requested
\* ticker whose analysis succeeded and no other row.
C9_TabelaDosValidos ==
  resultado.op = "comparar_ativos" =>
    LET ok == Validos(resultado.tickers, resultado.periodo_dias, resultado.now)
        out == resultado.out
    IN /\ TemErro(out) <=> ok = {}
       /\ TemErro(out) => out = [error |-> ErroComparacao]
       /\ ~TemErro(out) =>
            /\ {out.comparacao[i].ticker : i \in 1..Len(out.comparacao)} = ok
            /\ Len(out.comparacao) = Cardinality(ok)

C9_Witness ==
  /\ resultado.op = "comparar_ativos"
  /\ ~TemErro(resultado.out)
  /\ Len(resultado.out.comparacao) = 1
  /\ Len(resultado.tickers) = 2
  /\ TemErro(analisar_ativo(resultado.tickers[1], resultado.periodo_dias, resultado.now))
  /\ resultado.tickers[2] # resultado.tickers[1]

PrimeiraPosicao(tickers, tk) ==
  CHOOSE i \in 1..Len(tickers) :
    tickers[i] = tk /\ \A j \in 1..(i - 1) : tickers[j] # tk

\* C10: the comparison table is in descending order of Sharpe ratio and
\* rows with equal Sharpe ratio are in the order in which their tickers
\* first appear in the request.
C10_OrdemSharpeEstavel ==
  (resultado.op = "comparar_ativos" /\ ~TemErro(resultado.out)) =>
    LET t == resultado.out.comparacao
    IN \A i, j \in 1..Len(t) :
         i < j =>
           /\ t[i].sharpe_ratio >= t[j].sharpe_ratio
           /\ t[i].sharpe_ratio = t[j].sharpe_ratio =>
                PrimeiraPosicao(resultado.tickers, t[i].ticker)
                  < PrimeiraPosicao(resultado.tickers, t[j].ticker)

C10_Witness ==
  /\ resultado.op = "comparar_ativos"
  /\ ~TemErro(resultado.out)
  /\ Len(resultado.out.comparacao) = 2
  /\ resultado.out.comparacao[1].sharpe_ratio = resultado.out.comparacao[2].sharpe_ratio
  /\ resultado.out.comparacao[1].ticker = "B"

\* a table whose rows were reordered by the sort
C10_Reordenada ==
  /\ resultado.op = "comparar_ativos"
  /\ ~TemErro(resultado.out)
  /\ Len(resultado.out.comparacao) = 2
  /\ resultado.out.comparacao[1].sharpe_ratio > resultado.out.comparacao[2].sharpe_ratio
  /\ resultado.tickers[1] = resultado.out.comparacao[2].ticker

\* ------------------------------------------------- portfolio read claims
\* request r holds the answer of a portfolio read that ran to its end
Lido(r) ==
  /\ pc[r] = "done"
  /\ ~TemErro(resp[r].out)
  /\ "status" \notin DOMAIN resp[r].out

TotalDe(cid) == (CHOOSE c \in carteiras : c.id = cid).valor_total

\* C2: after a portfolio read every holding of the portfolio stores
\* quantidade * closing price of the quote of its asset with the greatest
\* data_hora, or 0 when the asset has no quote, and the stored total of the
\* portfolio is the sum of these values.
C2_ValorPelaUltimaCotacao ==
  \A r \in Reqs :
    Lido(r) =>
      LET mine == get_carteira_ativos(resp[r].cid) IN
      /\ \A h \in mine :
           IF CotacoesDe(cotacoes, h.ativo_id) = {} THEN h.valor_atual = 0
           ELSE \E c \in CotacoesDe(cotacoes, h.ativo_id) :
                  /\ \A d \in CotacoesDe(cotacoes, h.ativo_id) : d.data_hora <= c.data_hora
                  /\ h.valor_atual = h.quantidade * c.preco_fechamento
      /\ get_carteira(resp[r].cid) # {} =>
           TotalDe(resp[r].cid) =
             SumFn([i \in {h.id : h \in mine} |-> PorId(mine)[i].valor_atual], {h.id : h \in mine})

C2_Witness ==
  \E r \in Reqs :
    /\ Lido(r)
    /\ \E h \in get_carteira_ativos(resp[r].cid) :
         /\ h.quantidade = 2
         /\ h.valor_atual = 2
         /\ \E c \in CotacoesDe(cotacoes, h.ativo_id) :
              c.data_hora = 1 /\ c.preco_fechamento = 0
    /\ \E h \in get_carteira_ativos(resp[r].cid) :
         CotacoesDe(cotacoes, h.ativo_id) = {} /\ h.valor_atual = 0
    /\ TotalDe(resp[r].cid) = 2

\* C3 (as claimed): after a portfolio read with a non-zero total every
\* holding's stored weight is valor_atual / valor_total * 100, a holding of
\* value 0 having weight 0.
C3_PesoRecalculado ==
  \A r \in Reqs :
    (Lido(r) /\ get_carteira(resp[r].cid) # {}) =>
      (TotalDe(resp[r].cid) # 0 =>
         \A h \in get_carteira_ativos(resp[r].cid) :
           h.percentual_carteira = Percentual(h.valor_atual, TotalDe(resp[r].cid)))

\* C4 (as claimed): after a portfolio read with total 0 every holding's
\* stored weight is 0.
C4_PesoZeroComTotalZero ==
  \A r \in Reqs :
    (Lido(r) /\ get_carteira(resp[r].cid) # {}) =>
      (TotalDe(resp[r].cid) = 0 =>
         \A h \in get_carteira_ativos(resp[r].cid) : h.percentual_carteira = 0)

\* C8: analisar_carteira on a portfolio id without holdings answers the
\* empty/not-found error and leaves carteiras and carteira_ativos as they
\* were when the request arrived.
C8_CarteiraVaziaSemEscrita ==
  \A r \in Reqs :
    (/\ pc[r] = "done"
     /\ resp[r].kind = "analisar_carteira"
     /\ pre.on
     /\ {h \in pre.carteira_ativos : h.carteira_id = resp[r].cid} = {})
      => /\ resp[r].out = [error |-> ErroCarteiraVazia]
         /\ carteiras = pre.carteiras
         /\ carteira_ativos = pre.carteira_ativos

C8_Witness ==
  \E r \in Reqs :
    /\ pc[r] = "done"
    /\ resp[r].kind = "analisar_carteira"
    /\ resp[r].out = [error |-> ErroCarteiraVazia]
    /\ \E c \in carteiras : c.id = resp[r].cid /\ c.valor_total # 0
    /\ \E c \in CarteiraIds : c # resp[r].cid /\ get_carteira_ativos(c) # {}

\* two reads of the same portfolio, the second started while the first ran
Concorrentes(cid) ==
  /\ pre.on /\ pre.conc /\ pre.n = 2
  /\ \A r \in Reqs : Lido(r) /\ resp[r].kind = "analisar_carteira" /\ resp[r].cid = cid

\* C5 (as claimed): in the report of analisar_carteira every holding's
\* weight is its reported current value / the reported total * 100, whatever
\* quote insertions and other reads interleave with the read.
C5_RelatorioDeUmaFoto ==
  \A r \in Reqs :
    (Lido(r) /\ resp[r].kind = "analisar_carteira" /\ resp[r].out.valor_total # 0) =>
      \A i \in DOMAIN resp[r].out.ativos :
        resp[r].out.ativos[i].percentual_carteira =
          Percentual(resp[r].out.ativos[i].valor_atual, resp[r].out.valor_total)

\* C6 (as claimed): once two concurrent analisar_carteira requests on the
\* same portfolio have finished, the stored current values, total and
\* weights are the ones computed by the request that committed last.
C6_UltimoEscritorVence ==
  \A cid \in CarteiraIds :
    (Concorrentes(cid) /\ ultimo \in Reqs) =>
      LET w == loc[ultimo] IN
      /\ TotalDe(cid) = w.total_novo
      /\ \A h \in get_carteira_ativos(cid) :
           /\ h.valor_atual = w.novo[h.id]
           /\ h.id \in DOMAIN w.pct => h.percentual_carteira = w.pct[h.id]

\* both requests have finished and a stored weight is not the stored value
\* over the stored total
C6_Rasgada ==
  \E cid \in CarteiraIds :
    /\ Concorrentes(cid)
    /\ \E h \in get_carteira_ativos(cid) :
         h.percentual_carteira # Percentual(h.valor_atual, TotalDe(cid))

\* the two reads of different portfolios run one after the other on the
\* store found when the first of them started
Sequencial ==
  LET a == LerCarteira(resp["r1"].kind, resp["r1"].cid, pre.carteiras, pre.carteira_ativos)
      b == LerCarteira(resp["r2"].kind, resp["r2"].cid, a.carteiras, a.carteira_ativos)
  IN [carteiras |-> b.carteiras, carteira_ativos |-> b.carteira_ativos,
      r1 |-> a.out, r2 |-> b.out]

Independentes ==
  /\ pre.on /\ pre.n = 2 /\ ~interf
  /\ \A r \in Reqs : pc[r] = "done"
  /\ resp["r1"].cid # resp["r2"].cid

\* C7: reads of different portfolios are independent: whatever the
\* interleaving of a read of P with a read of Q, the two reports and the final
\* store are those of the two reads run one after the other.
C7_CarteirasIndependentes ==
  Independentes =>
    /\ carteiras = Sequencial.carteiras
    /\ carteira_ativos = Sequencial.carteira_ativos
    /\ resp["r1"].out = Sequencial.r1
    /\ resp["r2"].out = Sequencial.r2

C7_Witness ==
  /\ Independentes
  /\ pre.conc
  /\ \A r \in Reqs : Lido(r)
  /\ resp["r1"].kind = "analisar_carteira"
  /\ \A c \in carteiras : c.valor_total # 0
  /\ \E c \in pre.carteiras : c.valor_total = 0

\* C11: analisar_ativo for a ticker that matches no stored asset answers the
\* not-found error, whatever quotes are stored; an absent asset is never
\* reported as insufficient data.
C11_NaoEncontradoPrimeiro ==
  (resultado.op = "analisar_ativo" /\ get_ativo_by_ticker(resultado.ticker) = {})
    => resultado.out = [error |-> ErroNaoEncontrado]

C11_Witness ==
  /\ resultado.op = "analisar_ativo"
  /\ get_ativo_by_ticker(resultado.ticker) = {}
  /\ resultado.out = [error |-> ErroNaoEncontrado]
  /\ Cardinality(NaJanela(1, resultado.periodo_dias, resultado.now)) >= 2

OutraCaixa(tk) == IF tk = "A" THEN "a" ELSE IF tk = "a" THEN "A" ELSE tk

SemTicker(r) == IF TemErro(r) THEN r ELSE [r EXCEPT !.ticker = ""]

\* C12 (as claimed): through every entry point, a ticker and the same ticker
\* in the other letter case give the same outcome, however the asset was
\* stored.
C12_CaixaIndiferente ==
  resultado.op \in Entradas =>
    SemTicker(resultado.out) =
      SemTicker(Entrada(resultado.op, OutraCaixa(resultado.ticker),
                        resultado.periodo_dias, resultado.now))

\* C13: analisar_ativo is read-only: whatever its outcome, the stored assets,
\* quotes, dividends, portfolios and holdings are after the call what they
\* were before it.
C13_SomenteLeitura ==
  [][resultado'.op = "analisar_ativo" => UNCHANGED db]_vars

C13_Witness ==
  /\ resultado.op = "analisar_ativo"
  /\ ~TemErro(resultado.out)
  /\ resultado.out.numero_dividendos = 1
  /\ resultado.out.dividend_yield > 0

Analisada(r) == Lido(r) /\ resp[r].kind = "analisar_carteira"

CustoDe(cid) ==
  LET mine == get_carteira_ativos(cid)
  IN SumFn([i \in {h.id : h \in mine} |-> PorId(mine)[i].valor_investido], {h.id : h \in mine})

\* C14: the report's total cost basis is the sum of the holdings' recorded
\* cost bases, its total gain is the reported total minus the cost basis, and
\* its gain percentage is gain / cost basis * 100 (rounded down to 1/100 of a
\* percent), 0 when the cost basis is 0.
C14_RentabilidadeDaCarteira ==
  \A r \in Reqs :
    Analisada(r) =>
      LET out == resp[r].out
          custo == CustoDe(resp[r].cid)
      IN /\ out.total_investido = custo
         /\ out.rentabilidade_total = out.valor_total - custo
         /\ custo = 0 => out.rentabilidade_percentual = 0
         /\ custo > 0 =>
              /\ out.rentabilidade_percentual * custo <= out.rentabilidade_total * 100 * PctEscala
              /\ out.rentabilidade_total * 100 * PctEscala < (out.rentabilidade_percentual + 1) * custo

\* quantities 10 and 5 at prices 50 and 200 with cost bases 400 and 900
C14_Witness ==
  \E r \in Reqs :
    /\ Analisada(r)
    /\ \E h \in carteira_ativos : h.quantidade = 10 /\ h.valor_investido = 400 /\ h.valor_atual = 500
    /\ \E h \in carteira_ativos : h.quantidade = 5 /\ h.valor_investido = 900 /\ h.valor_atual = 1000
    /\ resp[r].out.valor_total = 1500
    /\ resp[r].out.total_investido = 1300
    /\ resp[r].out.rentabilidade_total = 200
    /\ resp[r].out.rentabilidade_percentual = 1538

\* the sector label under which a holding is reported
Rotulo(h) ==
  LET a == CHOOSE x \in ativos : x.id = h.ativo_id
  IN IF a.setor = SetorNulo THEN NaoClassificado ELSE a.setor

\* C15: in the sector exposure of the report every holding contributes its
\* current value to the sector of its asset (the default label when the asset
\* has none) and to no other, so the sector values sum to the reported total;
\* a sector's percentage is its value / total * 100 (rounded down to 1/100 of
\* a percent), 0 when the total is 0.
C15_ExposicaoSetorial ==
  \A r \in Reqs :
    Analisada(r) =>
      LET out == resp[r].out
          d == out.diversificacao_setorial
          mine == get_carteira_ativos(resp[r].cid)
      IN /\ DOMAIN d = {Rotulo(h) : h \in mine}
         /\ SumFn([s \in DOMAIN d |-> d[s].valor], DOMAIN d) = out.valor_total
         /\ \A s \in DOMAIN d :
              LET ids == {h.id : h \in {x \in mine : Rotulo(x) = s}}
              IN /\ d[s].valor = SumFn([i \in ids |-> out.ativos[i].valor_atual], ids)
                 /\ out.valor_total = 0 => d[s].percentual = 0
                 /\ out.valor_total > 0 =>
                      /\ d[s].percentual * out.valor_total <= d[s].valor * 100 * PctEscala
                      /\ d[s].valor * 100 * PctEscala < (d[s].percentual + 1) * out.valor_total

C15_Witness ==
  \E r \in Reqs :
    /\ Analisada(r)
    /\ DOMAIN resp[r].out.diversificacao_setorial = {NaoClassificado, "Energia"}
    /\ resp[r].out.diversificacao_setorial[NaoClassificado].valor = 500
    /\ resp[r].out.diversificacao_setorial["Energia"].valor = 1000
    /\ resp[r].out.diversificacao_setorial["Energia"].percentual = 6666

\* both holdings in one sector
C15_UmSetor ==
  \E r \in Reqs :
    /\ Analisada(r)
    /\ DOMAIN resp[r].out.diversificacao_setorial = {"Financeiro"}
    /\ resp[r].out.diversificacao_setorial["Financeiro"].valor = 1500

\* ---------------------------------------------------------------- C16, C17
\* a synchronisation whose fetch and processing have run
Sincronizada ==
  /\ resultado.op \in {"sync_quotes", "buscar_dados_externos"}
  /\ ~resultado.pendente

\* C16: a failed fetch is not retried: the client issues at most one request,
\* the failure is the client's failure value, and the operation that asked
\* for the fetch answers its caller with an error outcome.
C16_FalhaChegaAoChamador ==
  Sincronizada =>
    /\ resultado.pedidos <= 1
    /\ resultado.primeira # "ok" =>
         /\ resultado.cliente_falhou
         /\ resultado.out.status >= 400

\* the part of C16 that the client and sync_quotes do satisfy: one request,
\* the failure value, and the error answer of sync_quotes
C16_SemNovaTentativa ==
  Sincronizada =>
    /\ resultado.pedidos <= 1
    /\ resultado.primeira # "ok" =>
         /\ resultado.cliente_falhou
         /\ resultado.op = "sync_quotes" => resultado.out.status = 500

\* a sync_quotes whose one request failed was answered with the error
C16_FalhaRelatada ==
  /\ resultado.op = "sync_quotes"
  /\ resultado.primeira = "erro_http"
  /\ resultado.pedidos = 1
  /\ resultado.out.status = 500

\* C17: no operation answers with a success result for a request whose
\* upstream fetch or processing failed.
C17_FalhaNuncaEngolida ==
  (Sincronizada /\ resultado.falhou) => ~resultado.out.sucesso

\* sync_quotes reports a failure of the processing (a quote that is already
\* stored for the instant) as an error
C17_ProcessamentoFalhou ==
  /\ resultado.op = "sync_quotes"
  /\ resultado.primeira = "ok"
  /\ resultado.falhou
  /\ ~resultado.out.sucesso

\* ---------------------------------------------------------------- C18
\* running maximum of precos[1..i]
PicoAte(precos, i) ==
  CHOOSE x \in {precos[j] : j \in 1..i} : \A j \in 1..i : precos[j] <= x

Crescente(precos) == \A i \in 1..(Len(precos) - 1) : precos[i] < precos[i + 1]

\* m is a number, it is <= 0, it is 0 for fewer than 2 prices and for a
\* strictly increasing series, and otherwise it is the least of the
\* drawdowns (precos[i] - pico[i]) / pico[i]
DrawdownCerto(precos, m) ==
  /\ ~m.nan
  /\ m.valor <= 0
  /\ Len(precos) < 2 => m.valor = 0
  /\ Crescente(precos) => m.valor = 0
  /\ Len(precos) >= 2 =>
       /\ \A i \in 1..Len(precos) :
            (precos[i] - PicoAte(precos, i)) * Escala >= m.valor * PicoAte(precos, i)
       /\ \E i \in 1..Len(precos) :
            /\ m.valor * PicoAte(precos, i) <= (precos[i] - PicoAte(precos, i)) * Escala
            /\ (precos[i] - PicoAte(precos, i)) * Escala < (m.valor + 1) * PicoAte(precos, i)

\* C18: max_drawdown of calcular_drawdown is <= 0 for every price sequence:
\* 0 for fewer than 2 prices and for every strictly increasing sequence,
\* otherwise the minimum over i of (prices[i] - peak[i]) / peak[i].
C18_DrawdownNaoPositivo ==
  resultado.op = "calcular_drawdown" =>
    DrawdownCerto(resultado.precos, resultado.out.max_drawdown)

\* the same for the series that do not start with a price of 0
C18_PrimeiroPrecoPositivo ==
  (/\ resultado.op = "calcular_drawdown"
   /\ (resultado.precos = <<>> \/ resultado.precos[1] > 0)) =>
    DrawdownCerto(resultado.precos, resultado.out.max_drawdown)

\* [100, 110, 99, 121] gives (99 - 110) / 110 = -0.1
C18_Exemplo ==
  /\ resultado.op = "calcular_drawdown"
  /\ resultado.precos = <<100, 110, 99, 121>>
  /\ resultado.out.max_drawdown = Num(0 - 100)

\* ---------------------------------------------------------------- C19
\* C19: calcular_retorno_composto returns the empty sequence for fewer than
\* 2 prices and otherwise exactly Len(precos) - 1 elements, the element of
\* position i being precos[i] / precos[i-1] - 1, or 0 when precos[i-1] is 0.
C19_RetornosCompostos ==
  resultado.op = "calcular_retorno_composto" =>
    LET precos == resultado.precos
        retornos == resultado.out
    IN /\ Len(precos) < 2 => retornos = <<>>
       /\ Len(precos) >= 2 =>
            /\ Len(retornos) = Len(precos) - 1
            /\ \A i \in 1..Len(retornos) :
                 IF precos[i] = 0 THEN retornos[i] = 0
                 ELSE /\ (retornos[i] + Escala) * precos[i] <= precos[i + 1] * Escala
                      /\ precos[i + 1] * Escala < (retornos[i] + Escala + 1) * precos[i]

C19_Witness ==
  /\ resultado.op = "calcular_retorno_composto"
  /\ resultado.precos = <<100, 110, 99, 121>>
  /\ resultado.out = <<100, 0 - 100, 222>>

\* a price of 0 followed by another price gives the element 0
C19_AnteriorZero ==
  /\ resultado.op = "calcular_retorno_composto"
  /\ resultado.precos = <<0, 100, 110>>
  /\ resultado.out = <<0, 100>>

\* ---------------------------------------------------------------- C20
\* the quotes of the analysed asset inside the window of the analysis
JanelaAnalisada ==
  NaJanela((CHOOSE a \in get_ativo_by_ticker(resultado.ticker) : TRUE).id,
           resultado.periodo_dias, resultado.now)

\* C20: the report's retorno_total is the simple return from the first to
\* the last price of the window in ascending timestamp order: (p1 - p0) / p0,
\* 0 when p0 is 0 and 0 when both prices are equal; preco_atual is the last
\* price and lies between preco_minimo and preco_maximo.
C20_RetornoTotal ==
  (resultado.op = "analisar_ativo" /\ ~TemErro(resultado.out)) =>
    LET primeira == CHOOSE c \in JanelaAnalisada :
                      \A d \in JanelaAnalisada : c.data_hora <= d.data_hora
        ultima == CHOOSE c \in JanelaAnalisada :
                    \A d \in JanelaAnalisada : d.data_hora <= c.data_hora
        p0 == primeira.preco_fechamento
        p1 == ultima.preco_fechamento
        out == resultado.out
    IN /\ p0 = 0 => out.retorno_total = 0
       /\ p0 = p1 => out.retorno_total = 0
       /\ p0 # 0 => /\ out.retorno_total * p0 <= (p1 - p0) * Escala
                    /\ (p1 - p0) * Escala < (out.retorno_total + 1) * p0
       /\ out.preco_atual = p1
       /\ out.preco_minimo <= out.preco_atual
       /\ out.preco_atual <= out.preco_maximo
       /\ \A c \in JanelaAnalisada : /\ out.preco_minimo <= c.preco_fechamento
                                     /\ c.preco_fechamento <= out.preco_maximo

\* [100, 110, 99, 121] gives 0.21, with 121 as current and maximum price
C20_Witness ==
  /\ resultado.op = "analisar_ativo"
  /\ ~TemErro(resultado.out)
  /\ get_cotacoes_periodo(1, resultado.now - resultado.periodo_dias, resultado.now)
       = <<100, 110, 99, 121>>
  /\ resultado.out.retorno_total = 210
  /\ resultado.out.preco_atual = 121
  /\ resultado.out.preco_minimo = 99
  /\ resultado.out.preco_maximo = 121

\* a window that starts with a price of 0 has retorno_total 0
C20_InicialZero ==
  /\ resultado.op = "analisar_ativo"
  /\ ~TemErro(resultado.out)
  /\ get_cotacoes_periodo(1, resultado.now - resultado.periodo_dias, resultado.now)
       = <<0, 110, 99>>
  /\ resultado.out.retorno_total = 0

\* ---------------------------------------------------------------- C21
TodosIguais(retornos) ==
  \A i \in 1..Len(retornos) : retornos[i] = retornos[1]

\* what calcular_volatilidade and calcular_sharpe_ratio guard: no negative
\* volatility, 0 for fewer than 2 returns, a Sharpe ratio of 0 when the
\* computed volatility is 0
C21_Guardas ==
  /\ resultado.op = "calcular_volatilidade" =>
       /\ resultado.out >= 0
       /\ Len(resultado.retornos) < 2 => resultado.out = 0
  /\ resultado.op = "calcular_sharpe_ratio" =>
       /\ Len(resultado.retornos) < 2 => resultado.out = 0
       /\ calcular_volatilidade(resultado.retornos) = 0 => resultado.out = 0

\* C21: the volatility is never negative and is 0 for fewer than 2 returns;
\* the Sharpe ratio is 0 whenever the volatility of the returns is 0, in
\* particular when all returns are equal, or there are fewer than 2 returns.
C21_VolatilidadeESharpe ==
  /\ C21_Guardas
  /\ (resultado.op = "volatilidade_binaria" /\ TodosIguais(resultado.retornos)) =>
       resultado.nula

\* three equal returns of 0.1 at scale Escala: volatility 0, Sharpe ratio 0
C21_IguaisNaEscala ==
  /\ resultado.op = "calcular_sharpe_ratio"
  /\ resultado.retornos = <<100, 100, 100>>
  /\ calcular_volatilidade(resultado.retornos) = 0
  /\ resultado.out = 0

\* three equal floats whose rounded mean is another float
C21_MediaArredondada ==
  /\ resultado.op = "volatilidade_binaria"
  /\ Len(resultado.retornos) = 3
  /\ TodosIguais(resultado.retornos)
  /\ resultado.media # resultado.retornos[1]
  /\ ~resultado.nula

\* ---------------------------------------------------------------- C22
Rotas == {"rota_analisar_ativo", "rota_comparar_ativos", "rota_grafico_performance"}

\* the request of the route found no analysis to answer with
SemAnalise ==
  IF resultado.op = "rota_grafico_performance" THEN resultado.out = ""
  ELSE TemErro(resultado.out)

\* C22: each analytics route answers an error result of the service with
\* the client-error status it declares, never with 500: 400 for the
\* comparison route, 404 for the chart route and the single-asset route.
C22_StatusDeclarado ==
  (resultado.op \in Rotas /\ SemAnalise) =>
    resultado.status = IF resultado.op = "rota_comparar_ativos" THEN 400 ELSE 404

\* the single-asset route, which re-raises its HTTPException, answers 404
C22_RotaDeUmAtivo ==
  (resultado.op = "rota_analisar_ativo" /\ SemAnalise) => resultado.status = 404

\* a request for an unknown ticker was answered by the single-asset route
C22_NaoEncontrado ==
  /\ resultado.op = "rota_analisar_ativo"
  /\ TemErro(resultado.out)
  /\ resultado.out.error = ErroNaoEncontrado
  /\ resultado.status = 404

\* ---------------------------------------------------------------- C23
TickerUnico == \A a, b \in ativos : a.ticker = b.ticker => a = b

\* the ticker a registration looks up
TickerProcurado(r) == IF r.op = "criar_ativo" THEN Upper(r.ticker) ELSE r.ticker

\* C23: no two stored assets share a ticker after any sequence of asset
\* creations and synchronisations; a creation with a registered ticker is
\* answered 400 and leaves the store unchanged; a synchronisation keeps
\* every stored asset as it is.
C23_TickerSemRepeticao ==
  /\ []TickerUnico
  /\ [][/\ (/\ resultado'.op \in {"create_ativo", "criar_ativo"}
            /\ get_ativo_by_ticker(TickerProcurado(resultado')) # {}) =>
              (resultado'.out.status = 400 /\ UNCHANGED db)
        /\ resultado'.op = "sync_quotes" => ativos \subseteq ativos']_vars

\* a second registration of a ticker was refused, and a synchronisation of
\* the same ticker had stored a quote for the one asset
C23_Witness ==
  /\ resultado.op = "create_ativo"
  /\ resultado.out.status = 400
  /\ Cardinality(get_ativo_by_ticker(resultado.ticker)) = 1
  /\ \E a \in get_ativo_by_ticker(resultado.ticker) : CotacoesDe(cotacoes, a.id) # {}

\* ---------------------------------------------------------------- C24
UmaPosicaoPorAtivo ==
  \A h, g \in carteira_ativos :
    (h.carteira_id = g.carteira_id /\ h.ativo_id = g.ativo_id) => h = g

\* request r has just been answered for an asset its portfolio already held
RecusadaPorExistir(r) ==
  /\ pc[r] # "done"
  /\ pc'[r] = "done"
  /\ resp'[r].kind = "add_asset"
  /\ resp'[r].existia

\* C24: a portfolio holds at most one holding per asset, also with
\* concurrent add requests; adding an asset that is already in the portfolio
\* is rejected with a conflict error and leaves the holdings unchanged.
C24_UmaPosicaoComConflito ==
  /\ []UmaPosicaoPorAtivo
  /\ [][\A r \in Reqs : RecusadaPorExistir(r) =>
          (resp'[r].status = 409 /\ UNCHANGED carteira_ativos)]_vars

\* the part that holds: one holding per pair, and every refused addition
\* leaves the holdings as they were
C24_UmaPosicao ==
  /\ []UmaPosicaoPorAtivo
  /\ [][\A r \in Reqs : RecusadaPorExistir(r) => UNCHANGED carteira_ativos]_vars

\* two concurrent additions of one asset: one stored, the other answered 500
C24_CorridaPerdida ==
  /\ pc["r1"] = "done" /\ pc["r2"] = "done"
  /\ resp["r1"].kind = "add_asset" /\ resp["r2"].kind = "add_asset"
  /\ resp["r1"].status = 201
  /\ resp["r2"].status = 500
  /\ Cardinality(carteira_ativos) = 1

\* ---------------------------------------------------------------- C25
\* C25: create_transaction only records: one transaction is added to the
\* portfolio named in the path; without that portfolio the answer is 404 and
\* nothing is recorded; no holding and no portfolio total changes.
C25_SomenteRegistra ==
  [][resultado'.op = "create_transaction" =>
       /\ UNCHANGED <<ativos, cotacoes, carteiras, carteira_ativos, dividendos>>
       /\ IF get_carteira(resultado'.cid) = {}
          THEN resultado'.out.status = 404 /\ UNCHANGED transacoes
          ELSE /\ resultado'.out.status = 201
               /\ transacoes \subseteq transacoes'
               /\ Cardinality(transacoes') = Cardinality(transacoes) + 1
               /\ \A t \in transacoes' \ transacoes : t.carteira_id = resultado'.cid]_vars

\* a transaction of an asset the portfolio holds was recorded under the
\* path's portfolio, the body naming another one
C25_Witness ==
  /\ resultado.op = "create_transaction"
  /\ resultado.out.status = 201
  /\ resultado.corpo_cid # resultado.cid
  /\ \E t \in transacoes :
       /\ t.carteira_id = resultado.cid
       /\ \E h \in carteira_ativos : h.carteira_id = t.carteira_id /\ h.ativo_id = t.ativo_id

\* ---------------------------------------------------------------- C26
\* C26: delete_wallet is a logical deletion: the wallet is marked inactive
\* and leaves the list of wallets, while its record, holdings and
\* transactions stay; a missing wallet is answered 404 with nothing changed;
\* a second deletion changes nothing.
C26_ExclusaoLogica ==
  /\ [][resultado'.op = "delete_wallet" =>
          /\ UNCHANGED <<ativos, cotacoes, carteira_ativos, dividendos, transacoes>>
          /\ IF get_carteira(resultado'.cid) = {}
             THEN resultado'.out.status = 404 /\ UNCHANGED carteiras
             ELSE /\ resultado'.out.status = 200
                  /\ {c.id : c \in carteiras'} = {c.id : c \in carteiras}
                  /\ \A c \in carteiras :
                       IF c.id = resultado'.cid
                       THEN [c EXCEPT !.ativa = FALSE] \in carteiras'
                       ELSE c \in carteiras'
                  /\ (\A c \in get_carteira(resultado'.cid) : ~c.ativa) =>
                       UNCHANGED carteiras]_vars
  /\ [](resultado.op = "get_all_wallets" =>
          resultado.out = {c \in carteiras : c.ativa})

\* the list after a deletion: the deleted wallet is stored with its holding
\* and its transaction and is not listed
C26_Witness ==
  /\ resultado.op = "get_all_wallets"
  /\ \E c \in carteiras :
       /\ ~c.ativa
       /\ c \notin resultado.out
       /\ \E h \in carteira_ativos : h.carteira_id = c.id
       /\ \E t \in transacoes : t.carteira_id = c.id

\* ---------------------------------------------------------------- C27
SomaDosPesos(cid) ==
  SumFn([h \in get_carteira_ativos(cid) |-> h.percentual_carteira],
        get_carteira_ativos(cid))

\* C27: after a portfolio read in which the portfolio total is greater than
\* 0 the stored weights of its holdings sum to 100 (each weight is cut at
\* 1 / PctEscala of a percent, so the sum may fall short by one unit per
\* holding).
C27_PesosSomamCem ==
  \A r \in Reqs :
    (Lido(r) /\ get_carteira(resp[r].cid) # {} /\ TotalDe(resp[r].cid) > 0) =>
      /\ SomaDosPesos(resp[r].cid) <= 100 * PctEscala
      /\ SomaDosPesos(resp[r].cid) >=
           100 * PctEscala - Cardinality(get_carteira_ativos(resp[r].cid))

\* two holdings of value 1 and 2 read for the first time: 33.33 and 66.66
C27_PrimeiraLeitura ==
  \E r \in Reqs :
    /\ Lido(r)
    /\ get_carteira(resp[r].cid) # {}
    /\ TotalDe(resp[r].cid) = 3
    /\ SomaDosPesos(resp[r].cid) = 100 * PctEscala - 1

\* ---------------------------------------------------------------- C28
\* C28: analisar_carteira is idempotent: a second read right after a read
\* returns the same report and leaves every stored current value, weight
\* and portfolio total as the first read left it.
C28_LeituraIdempotente ==
  \A r \in Reqs :
    (pc[r] = "done" /\ resp[r].kind = "analisar_carteira") =>
      LET de_novo == LerCarteira("analisar_carteira", resp[r].cid, carteiras, carteira_ativos)
      IN /\ de_novo.out = resp[r].out
         /\ de_novo.carteiras = carteiras
         /\ de_novo.carteira_ativos = carteira_ativos

\* a read that stored values and weights for two holdings, after an
\* earlier read and a new quote
C28_Witness ==
  \E r \in Reqs :
    /\ Lido(r)
    /\ resp[r].kind = "analisar_carteira"
    /\ TotalDe(resp[r].cid) > 0
    /\ Cardinality(get_carteira_ativos(resp[r].cid)) = 2
    /\ \E h \in get_carteira_ativos(resp[r].cid) :
         h.valor_atual = 0 /\ h.percentual_carteira > 0

\* ---------------------------------------------------------------- C29
\* C29: a sync_quotes that ends with an error response leaves the store
\* unchanged: no asset, quote or dividend written by that request remains.
C29_ErroNadaGravado ==
  [][(resultado'.op = "sync_quotes" /\ resultado'.out.status = 500)
       => UNCHANGED <<ativos, cotacoes, dividendos>>]_vars

\* the part that holds: a request whose call to the provider failed writes
\* nothing
C29_FalhaDoProvedorNadaGravado ==
  [][(resultado'.op = "sync_quotes" /\ resultado'.cliente_falhou)
       => UNCHANGED <<ativos, cotacoes, dividendos>>]_vars

\* ---------------------------------------------------------------- C30
\* C30: every stored holding refers to an existing portfolio and an
\* existing asset, so that analisar_carteira can resolve the ticker and
\* sector of each holding it reports.
C30_PosicaoRefereExistentes ==
  \A h \in carteira_ativos :
    /\ get_carteira(h.carteira_id) # {}
    /\ get_ativo(h.ativo_id) # {}

\* the part that holds: the portfolio of every holding is stored
C30_PosicaoRefereCarteira ==
  \A h \in carteira_ativos : get_carteira(h.carteira_id) # {}

\* a read of a portfolio that fails on a holding whose asset is not stored
C30_TickerNaoResolvido ==
  \E r \in Reqs :
    /\ pc[r] = "done"
    /\ resp[r].kind = "analisar_carteira"
    /\ "status" \in DOMAIN resp[r].out
    /\ resp[r].out.status = 500
    /\ \E h \in get_carteira_ativos(resp[r].cid) : get_ativo(h.ativo_id) = {}
====
